---- MODULE Spec2Model ----
(***************************************************************************)
(* A model of the wei-daemon supervisor: the thread registry and its       *)
(* supervision loop (thread_manager.rs), the restart accounting            *)
(* (exception_handler.rs), the child-process monitor (process_manager.rs)  *)
(* and the console-signal shutdown escalation (signal_handler.rs).         *)
(*                                                                         *)
(* Every block of code that runs under one mutex guard, and every atomic   *)
(* load/store/swap, is one action; the places where the code releases a    *)
(* lock or sleeps are the places where other threads may interleave.       *)
(***************************************************************************)
EXTENDS Naturals, Integers, FiniteSets, Sequences, TLC

(* ------------------------------ bounds -------------------------------- *)

\* Number of worker ids the model lets the ThreadManager allocate.
MaxThreads == 2

\* Largest ThreadRestartPolicy.max_restarts the model explores.
MaxPolicy == 1

\* Largest n of RestartPolicy::Limited(n) the model explores.
MaxLimit == 2

\* Number of OS child processes the model lets be spawned.
MaxChildren == 4

\* Number of console signals the model delivers.
MaxSignals == 2

\* Number of seconds the model's clock runs on after the first signal.
MaxTime == 95

\* The wall clock (seconds since the epoch) at which the model starts.
ClockStart == 10

\* Number of workers the daemon's main loop has created (main.rs line 58
\* creates three).
SigWorkers == 1

\* Number of successful ExceptionHandler::install calls the model follows.
MaxInstalls == 3

\* Number of calls of the unhandled-exception filter the model follows.
MaxExceptions == 3

\* Number of record_restart calls followed for one thread name.
MaxRecorded == 5

\* Largest restart_delay / max_restart_delay of a policy, in Duration ticks.
MaxDelay == 5

\* Largest number of lines of the configuration file.
MaxLines == 3

\* Largest number of entries of console_ctrl_handler in the console's list.
MaxCtrlHandlers == 3

\* Thread names handed to create_thread_with_restart.
ThreadNames == {"a", "b"}

\* format!("Worker-{}", i), main.rs line 60
WorkerName(i) == "Worker-" \o ToString(i)

\* Process names handed to start_process.
ProcNames == {"p", "q"}

\* format!("monitor_{}", name), process_manager.rs line 82
MonitorName(p) == "monitor_" \o p

\* the name start_health_monitor gives its worker, thread_manager.rs line 375
HealthMonitorName == "HealthMonitor"

AllThreadNames ==
    ThreadNames \cup {MonitorName(p) : p \in ProcNames} \cup {HealthMonitorName}
                \cup {WorkerName(i) : i \in 1..SigWorkers}

\* signal_handler.rs lines 13-14, and the threshold of line 87
GRACEFUL_SHUTDOWN_TIMEOUT_SECONDS == 30
FORCED_SHUTDOWN_TIMEOUT_SECONDS == 60
SubsequentSignalThreshold == 5

\* main.rs line 49: the restart policy daemon_main_loop configures
MainMaxRestarts == 3

\* main.rs line 130: the sleep of the main loop between two polls of the flag
MainLoopSleepSeconds == 5

VARIABLES
    \* ---- ThreadManager (thread_manager.rs) ----
    next_thread_id,     \* AtomicU64, next id to hand out
    threads,            \* the registry map: id -> ThreadInfo
    shutdown_signal,    \* id -> the worker's Arc<AtomicBool>
    sup,                \* id -> the worker's OS thread (supervision loop position)
    creating,           \* ids whose thread is spawned and whose record is not yet inserted
    joining,            \* ids whose JoinHandle a stop_thread caller took and is joining
    stop_all,           \* the stop_all_threads call in progress, if any
    \* ---- ThreadRestartManager (exception_handler.rs) ----
    restart_counts,     \* thread name -> u32 (missing key reads as 0)
    max_restarts,       \* policy.max_restarts
    \* ---- ProcessManager (process_manager.rs) ----
    processes,          \* the map: process name -> ProcessInfo
    children,           \* the OS child processes ever spawned: child -> [name, state]
    mon,                \* worker id -> position of its monitor_process body
    spawn_errors,       \* names for which a Command::spawn() returned Err
    \* ---- signal_handler.rs and main.rs ----
    SHUTDOWN_FLAG,              \* static AtomicBool
    GRACEFUL_SHUTDOWN_STARTED,  \* static AtomicBool
    SHUTDOWN_START_TIME,        \* static AtomicU64
    now,                \* the wall clock, in seconds
    handlers,           \* the console_ctrl_handler invocations, in order of arrival
    graceful_monitors,  \* the threads of start_graceful_exit_monitor
    forced_monitors,    \* the threads of start_forced_exit_monitor: their wake times, in order of start
    main_pc,            \* position of daemon_main_loop
    exit_code,          \* "running", or the exit code the process ended with: "0", "1"
    \* ---- ExceptionHandler (exception_handler.rs) ----
    EXCEPTION_HANDLER_INSTALLED,  \* static AtomicBool
    top_level_filter,   \* the process's unhandled-exception filter (the OS's state)
    panic_hooks,        \* number of panic hooks the installs have chained
    eh,                 \* ExceptionHandler instance -> its fields and the call in progress
    EXCEPTION_COUNT,    \* static AtomicU32
    filter_calls,       \* number of times the OS has called unhandled_exception_filter
    filter_last,        \* the last call of the filter: its input, whether it logged, its outcome
    \* ---- ThreadRestartPolicy (exception_handler.rs) ----
    restart_delay,      \* policy.restart_delay, in Duration ticks
    backoff_multiplier, \* policy.backoff_multiplier, as <<numerator, denominator>>
    max_restart_delay,  \* policy.max_restart_delay, in Duration ticks
    delays,             \* thread name -> the Durations record_restart has returned for it, in order
    \* ---- ConfigParser (config_parser.rs) ----
    config_file,        \* the file at config_file_path: exists, its lines, its modification time
    parser,             \* ConfigParser: last_modified, cached_configs (and the lines they came from)
    load_result,        \* what the last load_config returned
    \* ---- the registry mutex (thread_manager.rs) ----
    registry_mutex,     \* who holds the Mutex of ThreadManager::threads: "free" or a caller
    stopper,            \* caller -> the stop_thread call it is in: position, id, handle taken
    \* ---- the other locks of the ThreadManager (thread_manager.rs) ----
    restart_mutex,      \* who holds the Mutex of ThreadManager::restart_manager
    status_lock,        \* id -> who holds the RwLock of the record's status
    scan,               \* thread -> its pass over the records under the registry mutex
    \* ---- SignalHandler (signal_handler.rs) ----
    handler_registered, \* SignalHandler::handler_registered
    ctrl_handlers,      \* entries console_ctrl_handler has in the console's handler list
    reg,                \* caller -> its register / unregister call in progress
    registered_ok,      \* register calls that returned Ok since the last unregister
    \* ---- observation ----
    invocations         \* thread id -> number of times its body has been invoked (history)

tmVars == <<next_thread_id, threads, shutdown_signal, sup, creating, joining,
            stop_all, restart_counts, max_restarts>>

pmVars == <<processes, children, mon, spawn_errors>>

sigVars == <<SHUTDOWN_FLAG, GRACEFUL_SHUTDOWN_STARTED, SHUTDOWN_START_TIME, now,
             handlers, graceful_monitors, forced_monitors, main_pc, exit_code>>

filterVars == <<EXCEPTION_COUNT, filter_calls, filter_last>>

ehVars == <<EXCEPTION_HANDLER_INSTALLED, top_level_filter, panic_hooks, eh, filterVars>>

policyVars == <<restart_delay, backoff_multiplier, max_restart_delay, delays>>

\* the state outside the managers and the signal handling
cfgVars == <<config_file, parser, load_result>>

histVars == <<invocations>>

lockVars == <<registry_mutex, stopper>>

locksVars == <<restart_mutex, status_lock, scan>>

regVars == <<handler_registered, ctrl_handlers, reg, registered_ok>>

auxVars == <<locksVars, regVars>>

extVars == <<ehVars, policyVars, cfgVars, histVars, lockVars, auxVars>>

vars == <<tmVars, pmVars, sigVars, extVars>>

(* ------------------- exception_handler.rs: restarts -------------------- *)

\* ThreadRestartManager::get_restart_count
get_restart_count(counts, name) == counts[name]

\* ThreadRestartManager::can_restart
can_restart(counts, name) == get_restart_count(counts, name) < max_restarts

\* ThreadRestartManager::record_restart: the map after the call
record_restart(counts, name) ==
    [counts EXCEPT ![name] = get_restart_count(counts, name) + 1]

\* ThreadRestartPolicy::default (285-292), the policy of ThreadManager::new:
\* restart_delay 1 s, backoff_multiplier 2.0, max_restart_delay 60 s
InitPolicy ==
    /\ restart_delay = 1
    /\ backoff_multiplier = <<2, 1>>
    /\ max_restart_delay = 60
    /\ delays = [name \in ThreadNames |-> <<>>]

Min(a, b) == IF a <= b THEN a ELSE b

\* a record_restart whose delay is not clamped to max_restart_delay
restart_delay_of_unclamped(new_count) ==
    (restart_delay * backoff_multiplier[1] ^ (new_count - 1))
        \div (backoff_multiplier[2] ^ (new_count - 1))

\* a delay whose exponent is the new count itself
restart_delay_of_next(new_count) ==
    Min((restart_delay * backoff_multiplier[1] ^ new_count)
            \div (backoff_multiplier[2] ^ new_count),
        max_restart_delay)

\* record_restart lines 322-327: base_delay * multiplier.powi(new_count - 1),
\* .min(max_restart_delay), Duration::from_secs_f64 (which drops what is
\* below one tick).  The f64 product overflows to infinity, and the i32 cast
\* of new_count - 1 turns negative, only for counts far beyond MaxRecorded.
restart_delay_of(new_count) ==
    Min((restart_delay * backoff_multiplier[1] ^ (new_count - 1))
            \div (backoff_multiplier[2] ^ (new_count - 1)),
        max_restart_delay)

\* one call of ThreadRestartManager::record_restart(name) (315-328): the
\* count goes up by one and the Duration for the new count is returned
record_restart_call(name) ==
    /\ get_restart_count(restart_counts, name) < MaxRecorded
    /\ restart_counts' = record_restart(restart_counts, name)
    /\ delays' = [delays EXCEPT ![name] =
                     Append(@, restart_delay_of(get_restart_count(restart_counts, name) + 1))]
    /\ UNCHANGED <<next_thread_id, threads, shutdown_signal, sup, creating, joining,
                   stop_all, max_restarts>>
    /\ UNCHANGED <<restart_delay, backoff_multiplier, max_restart_delay>>

(* --------------------- thread_manager.rs: records ---------------------- *)

\* ThreadInfo::new followed by set_status(Created) and the insert
ThreadInfo_new(name) == [name |-> name, status |-> "Created", handle |-> TRUE]

\* ThreadInfo::set_status applied to the record of id, when the map holds it
set_status(map, id, status) ==
    IF id \in DOMAIN map THEN [map EXCEPT ![id].status = status] ELSE map

\* ThreadInfo::signal_shutdown
signal_shutdown(flags, id) == [flags EXCEPT ![id] = TRUE]

\* ThreadInfo::should_shutdown / the supervisor's load of its clone
should_shutdown(id) == shutdown_signal[id]

\* the OS thread of a worker right after thread::Builder::spawn
SpawnedThread(name, enable_restart) ==
    [pc |-> "body", name |-> name, enable_restart |-> enable_restart,
     should_restart |-> FALSE]

Allocated == DOMAIN sup

(* ------------------ create_thread_with_restart ------------------------- *)

\* an allocator that hands out the smallest id the registry does not hold
create_thread_spawn_reuse(name, enable_restart) ==
    /\ next_thread_id <= MaxThreads
    /\ next_thread_id' = next_thread_id + 1
    /\ LET id == CHOOSE i \in 1..next_thread_id :
                     /\ i \notin DOMAIN threads \cup creating
                     /\ \A j \in 1..(i - 1) : j \in DOMAIN threads \cup creating
       IN /\ shutdown_signal' = [i \in DOMAIN shutdown_signal \cup {id} |->
                                   IF i = id THEN FALSE ELSE shutdown_signal[i]]
          /\ sup' = [i \in DOMAIN sup \cup {id} |->
                       IF i = id THEN SpawnedThread(name, enable_restart) ELSE sup[i]]
          /\ creating' = creating \cup {id}
    /\ UNCHANGED <<threads, joining, stop_all, restart_counts, max_restarts>>

\* lines 121-218 / 231-240: allocate the id, spawn the OS thread
create_thread_spawn(name, enable_restart) ==
    /\ next_thread_id <= MaxThreads
    /\ next_thread_id' = next_thread_id + 1
    /\ shutdown_signal' = shutdown_signal @@ (next_thread_id :> FALSE)
    /\ sup' = sup @@ (next_thread_id :> SpawnedThread(name, enable_restart))
    /\ creating' = creating \cup {next_thread_id}
    /\ UNCHANGED <<threads, joining, stop_all, restart_counts, max_restarts>>

\* lines 220-228 / 242-250: insert the record under the registry mutex
create_thread_insert(id) ==
    /\ id \in creating
    /\ creating' = creating \ {id}
    /\ threads' = [i \in DOMAIN threads \cup {id} |->
                     IF i = id THEN ThreadInfo_new(sup[id].name) ELSE threads[i]]
    /\ UNCHANGED <<next_thread_id, shutdown_signal, sup, joining, stop_all,
                   restart_counts, max_restarts>>

(* ------------------------ the supervision loop ------------------------- *)

SupAt(id, pc) == id \in Allocated /\ sup[id].pc = pc

SupGoto(id, pc) == sup' = [sup EXCEPT ![id].pc = pc]

\* safe_thread_wrapper returns Ok(()): the body returned.  Line 148-151
\* (restart mode) and 234-239 (simple mode): the thread ends.
body_returns(id) ==
    /\ SupAt(id, "body")
    /\ SupGoto(id, "done")
    /\ UNCHANGED <<next_thread_id, threads, shutdown_signal, creating, joining,
                   stop_all, restart_counts, max_restarts>>

\* safe_thread_wrapper returns Err: the body panicked.  Restart mode goes to
\* the restart decision (line 152), simple mode drops the result (line 234).
body_panics(id) ==
    /\ SupAt(id, "body")
    /\ SupGoto(id, IF sup[id].enable_restart THEN "err" ELSE "done")
    /\ UNCHANGED <<next_thread_id, threads, shutdown_signal, creating, joining,
                   stop_all, restart_counts, max_restarts>>

\* lines 156-159: should_restart = can_restart(name), under the manager's mutex
sup_can_restart(id) ==
    /\ SupAt(id, "err")
    /\ sup' = [sup EXCEPT ![id].pc = "decide",
                          ![id].should_restart = can_restart(restart_counts, sup[id].name)]
    /\ UNCHANGED <<next_thread_id, threads, shutdown_signal, creating, joining,
                   stop_all, restart_counts, max_restarts>>

\* line 161: if should_restart && !shutdown_signal
sup_decide(id) ==
    /\ SupAt(id, "decide")
    /\ sup' = [sup EXCEPT ![id].pc = IF sup[id].should_restart /\ ~should_shutdown(id)
                                     THEN "record" ELSE "norestart",
                          ![id].should_restart = FALSE]
    /\ UNCHANGED <<next_thread_id, threads, shutdown_signal, creating, joining,
                   stop_all, restart_counts, max_restarts>>

\* lines 162-165: record_restart(name), under the manager's mutex
sup_record_restart(id) ==
    /\ SupAt(id, "record")
    /\ restart_counts' = record_restart(restart_counts, sup[id].name)
    /\ SupGoto(id, "set_restarting")
    /\ UNCHANGED <<next_thread_id, threads, shutdown_signal, creating, joining,
                   stop_all, max_restarts>>

\* lines 167-184: read the count for the log, then set status Restarting
\* under the registry mutex if the record is in the map
sup_set_restarting(id) ==
    /\ SupAt(id, "set_restarting")
    /\ threads' = set_status(threads, id, "Restarting")
    /\ SupGoto(id, "sleep")
    /\ UNCHANGED <<next_thread_id, shutdown_signal, creating, joining, stop_all,
                   restart_counts, max_restarts>>

\* a wake-up that restarts the body without loading the shutdown flag
sup_wake_unchecked(id) ==
    /\ SupAt(id, "sleep")
    /\ SupGoto(id, "body")
    /\ UNCHANGED <<next_thread_id, threads, shutdown_signal, creating, joining,
                   stop_all, restart_counts, max_restarts>>

\* lines 186-195: the backoff sleep ends; re-check the flag, then continue
sup_wake(id) ==
    /\ SupAt(id, "sleep")
    /\ SupGoto(id, IF should_shutdown(id) THEN "done" ELSE "body")
    /\ UNCHANGED <<next_thread_id, threads, shutdown_signal, creating, joining,
                   stop_all, restart_counts, max_restarts>>

\* lines 196-204: no restart; load the flag again
sup_no_restart(id) ==
    /\ SupAt(id, "norestart")
    /\ SupGoto(id, IF should_shutdown(id) THEN "done" ELSE "set_failed")
    /\ UNCHANGED <<next_thread_id, threads, shutdown_signal, creating, joining,
                   stop_all, restart_counts, max_restarts>>

\* lines 205-212: set status Failed under the registry mutex, then break
sup_set_failed(id) ==
    /\ SupAt(id, "set_failed")
    /\ threads' = set_status(threads, id, "Failed")
    /\ SupGoto(id, "done")
    /\ UNCHANGED <<next_thread_id, shutdown_signal, creating, joining, stop_all,
                   restart_counts, max_restarts>>

(* ------------------- start_thread / stop_thread ------------------------ *)

\* ThreadManager::start_thread (Err and no change when the id is unknown)
start_thread(id) ==
    /\ id \in DOMAIN threads
    /\ threads' = set_status(threads, id, "Running")
    /\ UNCHANGED <<next_thread_id, shutdown_signal, sup, creating, joining,
                   stop_all, restart_counts, max_restarts>>

\* stop_thread lines 272-280: under the registry mutex set the flag, set
\* status Stopped and take the JoinHandle; the caller then joins (if it got
\* a handle) with the mutex released.
stop_thread_locked(id) ==
    /\ id \in DOMAIN threads
    /\ shutdown_signal' = signal_shutdown(shutdown_signal, id)
    /\ threads' = [threads EXCEPT ![id].status = "Stopped", ![id].handle = FALSE]
    /\ joining' = IF threads[id].handle THEN joining \cup {id} ELSE joining

\* stop_thread line 282: handle.join() returns once the worker's thread ended
stop_thread_joined(id) ==
    /\ id \in joining
    /\ SupAt(id, "done")
    /\ joining' = joining \ {id}

\* what stop_thread(id) returns: Ok when the map holds the id (line 290),
\* Err("thread id does not exist") otherwise (line 292)
stop_thread_result(id) == IF id \in DOMAIN threads THEN "Ok" ELSE "Err"

\* a direct call of stop_thread(id), outside stop_all_threads
stop_thread(id) ==
    /\ stop_thread_locked(id)
    /\ UNCHANGED <<next_thread_id, sup, creating, stop_all, restart_counts,
                   max_restarts>>

\* the join of a direct stop_thread(id) call returns
stop_thread_join(id) ==
    /\ stop_thread_joined(id)
    /\ (stop_all.pc = "join" => stop_all.cur # id)
    /\ UNCHANGED <<next_thread_id, threads, shutdown_signal, sup, creating,
                   stop_all, restart_counts, max_restarts>>

(* ----------------------------- health_check --------------------------- *)

\* health_check lines 343-368 (and the same loop in the body of the
\* HealthMonitor worker, 376-400), one pass under the registry mutex.  `late`
\* are the records whose last heartbeat is older than heartbeat_timeout: they
\* get status Error; every other record that is not in Error gets HealthCheck.
health_check(late) ==
    /\ threads # <<>>
    /\ threads' = [id \in DOMAIN threads |->
                     IF id \in late THEN [threads[id] EXCEPT !.status = "Error"]
                     ELSE IF threads[id].status # "Error"
                     THEN [threads[id] EXCEPT !.status = "HealthCheck"]
                     ELSE threads[id]]
    /\ UNCHANGED <<next_thread_id, shutdown_signal, sup, creating, joining,
                   stop_all, restart_counts, max_restarts>>

(* -------------------------- stop_all_threads --------------------------- *)

StopAllIdle == [pc |-> "idle", ids |-> {}, cur |-> 0]

\* lines 302-309: snapshot the keys under the registry mutex
stop_all_snapshot ==
    /\ stop_all.pc = "idle"
    /\ stop_all' = [pc |-> "loop", ids |-> DOMAIN threads, cur |-> 0]
    /\ UNCHANGED <<next_thread_id, threads, shutdown_signal, sup, creating,
                   joining, restart_counts, max_restarts>>

\* lines 311-315: the next stop_thread(thread_id) of the loop, up to its join
stop_all_stop(id) ==
    /\ stop_all.pc = "loop"
    /\ id \in stop_all.ids
    /\ IF id \in DOMAIN threads
       THEN /\ stop_thread_locked(id)
            /\ stop_all' = [pc |-> IF threads[id].handle THEN "join" ELSE "loop",
                            ids |-> stop_all.ids \ {id},
                            cur |-> IF threads[id].handle THEN id ELSE 0]
       ELSE /\ stop_all' = [stop_all EXCEPT !.ids = @ \ {id}]
            /\ UNCHANGED <<threads, shutdown_signal, joining>>
    /\ UNCHANGED <<next_thread_id, sup, creating, restart_counts, max_restarts>>

\* the join inside the loop's stop_thread returns
stop_all_join ==
    /\ stop_all.pc = "join"
    /\ stop_thread_joined(stop_all.cur)
    /\ stop_all' = [stop_all EXCEPT !.pc = "loop", !.cur = 0]
    /\ UNCHANGED <<next_thread_id, threads, shutdown_signal, sup, creating,
                   restart_counts, max_restarts>>

\* lines 317-321: clear the map; stop_all_threads returns
stop_all_clear ==
    /\ stop_all.pc = "loop"
    /\ stop_all.ids = {}
    /\ threads' = <<>>
    /\ stop_all' = StopAllIdle
    /\ UNCHANGED <<next_thread_id, shutdown_signal, sup, creating, joining,
                   restart_counts, max_restarts>>

(* ------------------- the registry mutex, step by step ------------------ *)

\* the threads that call stop_thread: a caller of stop_thread itself, and the
\* caller of stop_all_threads
Callers == {"direct", "stop_all"}

NoCall == [pc |-> "idle", id |-> 0, handle |-> FALSE]

\* self.threads.lock() / threads_ref.lock() succeeds only on a free mutex
registry_free == registry_mutex = "free"

\* a critical section that takes the registry mutex, acts and releases it
\* within one step: create_thread's insert (223-226), the supervisor's status
\* writes (179-183, 207-211), stop_all_threads' snapshot (303) and clear (318)
locked_section(A) == registry_free /\ A /\ UNCHANGED lockVars

\* stop_thread lines 272-279 by caller c: lock the mutex, and with the record
\* found set the flag, set Stopped and take the handle; the mutex is held
enter_stop_thread(c, id) ==
    /\ registry_free
    /\ stopper[c].pc = "idle"
    /\ id \in DOMAIN threads
    /\ registry_mutex' = c
    /\ stopper' = [stopper EXCEPT ![c] = [pc |-> "locked", id |-> id,
                                          handle |-> threads[id].handle]]

\* a stop_thread that keeps the mutex while it joins
unlock_stop_thread_late(c) ==
    /\ stopper[c].pc = "locked"
    /\ registry_mutex' = IF stopper[c].handle THEN registry_mutex ELSE "free"
    /\ stopper' = [stopper EXCEPT ![c] = IF stopper[c].handle
                                         THEN [@ EXCEPT !.pc = "join"] ELSE NoCall]
    /\ UNCHANGED tmVars

\* stop_thread line 280: drop(threads) before handle.join(); without a
\* handle the guard goes at the end of the block and stop_thread returns Ok
unlock_stop_thread(c) ==
    /\ stopper[c].pc = "locked"
    /\ registry_mutex' = "free"
    /\ stopper' = [stopper EXCEPT ![c] = IF stopper[c].handle
                                         THEN [@ EXCEPT !.pc = "join"] ELSE NoCall]
    /\ UNCHANGED tmVars

\* stop_thread lines 282-290 by caller c: handle.join() returns, Ok(()); a
\* guard still alive goes when the function returns
leave_stop_thread(c) ==
    /\ stopper[c].pc = "join"
    /\ registry_mutex' = IF registry_mutex = c THEN "free" ELSE registry_mutex
    /\ stopper' = [stopper EXCEPT ![c] = NoCall]

\* a direct stop_thread(id) call, up to the point where it holds the mutex
direct_stop_thread(id) ==
    /\ enter_stop_thread("direct", id)
    /\ stop_thread(id)

\* the join of the direct call returns
direct_stop_thread_join ==
    /\ leave_stop_thread("direct")
    /\ stop_thread_join(stopper["direct"].id)

\* stop_all_threads: the next stop_thread(thread_id) of its loop (311-315);
\* an id that is no longer in the map gives Err under a lock held briefly
stop_all_next(id) ==
    /\ stop_all_stop(id)
    /\ IF id \in DOMAIN threads
       THEN enter_stop_thread("stop_all", id)
       ELSE registry_free /\ UNCHANGED lockVars

\* the join inside the loop's stop_thread returns
stop_all_join_leave ==
    /\ leave_stop_thread("stop_all")
    /\ stop_all_join

\* the loop is between two stop_thread calls
stop_all_between == stopper["stop_all"].pc = "idle"

\* list_threads line 333: self.threads.lock(); the guard lives for the whole
\* enumeration of lines 334-337
list_threads_lock ==
    /\ registry_free
    /\ registry_mutex' = "list_threads"
    /\ UNCHANGED <<stopper, tmVars>>

\* list_threads lines 334-338: every record's (id, name, get_status()) is
\* collected, the Vec is returned and the guard goes
list_threads_return ==
    /\ registry_mutex = "list_threads"
    /\ registry_mutex' = "free"
    /\ UNCHANGED <<stopper, tmVars>>

\* the supervisor of id is at threads_ref.lock() of line 180 or of line 206
sup_wants_registry(id) ==
    SupAt(id, "set_restarting") \/ SupAt(id, "set_failed")

(* ===================== process_manager.rs ============================== *)

\* RestartPolicy::Infinite and RestartPolicy::Limited(n)
Infinite == [kind |-> "Infinite", max |-> 0]
Limited(n) == [kind |-> "Limited", max |-> n]
RestartPolicies == {Infinite} \cup {Limited(n) : n \in 0..MaxLimit}

ChildIds == DOMAIN children

\* Child::try_wait() returns Ok(Some(status)): the child has exited
try_wait_exited(c) == children[c].state = "exited"

\* the children map after Command::spawn() returned Ok for process `name`
spawn_child(name) ==
    children @@ ((Cardinality(ChildIds) + 1) :> [name |-> name, state |-> "live"])

NewChildId == Cardinality(ChildIds) + 1

\* the ProcessInfo start_process builds, lines 67-76
ProcessInfo_new(child, policy) ==
    [status |-> "Running", child_handle |-> child, restart_policy |-> policy,
     restart_count |-> 0]

\* the exit of an OS child process, for its own reasons
child_exits(c) ==
    /\ c \in ChildIds
    /\ children[c].state = "live"
    /\ children' = [children EXCEPT ![c].state = "exited"]
    /\ UNCHANGED <<processes, mon, spawn_errors>>

\* start_process, lines 53-59: the name is in the map with status Running
start_process_rejected(name) ==
    /\ name \in DOMAIN processes
    /\ processes[name].status = "Running"
    /\ UNCHANGED <<tmVars, pmVars>>

\* start_process, lines 53-92 with spawn() Ok: all under the processes mutex.
\* Inserts the record and creates the monitor worker (create_thread_with_restart
\* with enable_restart = matches!(policy, Infinite)).
start_process(name, policy) ==
    /\ ~(name \in DOMAIN processes /\ processes[name].status = "Running")
    /\ Cardinality(ChildIds) < MaxChildren
    /\ next_thread_id <= MaxThreads
    /\ children' = spawn_child(name)
    /\ processes' = [n \in DOMAIN processes \cup {name} |->
                       IF n = name THEN ProcessInfo_new(NewChildId, policy)
                       ELSE processes[n]]
    /\ next_thread_id' = next_thread_id + 1
    /\ shutdown_signal' = shutdown_signal @@ (next_thread_id :> FALSE)
    /\ sup' = sup @@ (next_thread_id :>
                         SpawnedThread(MonitorName(name), policy = Infinite))
    /\ threads' = threads @@ (next_thread_id :> ThreadInfo_new(MonitorName(name)))
    /\ mon' = mon @@ (next_thread_id :> [pc |-> "sleep", name |-> name, new_child |-> 0])
    /\ UNCHANGED <<creating, joining, stop_all, restart_counts, max_restarts,
                   spawn_errors>>

\* start_process, line 91: spawn() returned Err
start_process_spawn_err(name) ==
    /\ ~(name \in DOMAIN processes /\ processes[name].status = "Running")
    /\ spawn_errors' = spawn_errors \cup {name}
    /\ UNCHANGED <<tmVars, processes, children, mon>>

MonAt(id, pc) == id \in DOMAIN mon /\ sup[id].pc = "body" /\ mon[id].pc = pc

\* monitor_process line 105-111: the restart decision and the new count
should_restart_process(process) ==
    IF process.restart_policy.kind = "Infinite" THEN TRUE
    ELSE process.restart_count + 1 < process.restart_policy.max

count_after_exit(process) ==
    IF process.restart_policy.kind = "Infinite" THEN process.restart_count
    ELSE process.restart_count + 1

\* monitor_process lines 97-145: one pass of the loop under the processes
\* mutex, after the 5 s sleep
monitor_check(id) ==
    /\ MonAt(id, "sleep")
    /\ LET name == mon[id].name IN
       IF name \notin DOMAIN processes
       THEN \* line 143-145: no record, break; the body returns
            /\ sup' = [sup EXCEPT ![id].pc = "done"]
            /\ UNCHANGED <<processes, mon>>
       ELSE LET process == processes[name] IN
            IF ~try_wait_exited(process.child_handle)
            THEN \* the child still runs: next pass
                 UNCHANGED <<sup, processes, mon>>
            ELSE IF should_restart_process(process)
            THEN \* lines 113-121: mark Stopped, release the mutex
                 /\ processes' = [processes EXCEPT
                       ![name].restart_count = count_after_exit(process),
                       ![name].status = "Stopped"]
                 /\ mon' = [mon EXCEPT ![id].pc = "spawn"]
                 /\ UNCHANGED sup
            ELSE \* lines 134-138: max restarts reached, break
                 /\ processes' = [processes EXCEPT
                       ![name].restart_count = count_after_exit(process),
                       ![name].status = "Stopped"]
                 /\ sup' = [sup EXCEPT ![id].pc = "done"]
                 /\ UNCHANGED mon
    /\ UNCHANGED <<next_thread_id, threads, shutdown_signal, creating, joining,
                   stop_all, restart_counts, max_restarts, children, spawn_errors>>

\* monitor_process lines 123-126: new_cmd.spawn() returns Ok, mutex not held
monitor_spawn(id) ==
    /\ MonAt(id, "spawn")
    /\ Cardinality(ChildIds) < MaxChildren
    /\ children' = spawn_child(mon[id].name)
    /\ mon' = [mon EXCEPT ![id].pc = "store", ![id].new_child = NewChildId]
    /\ UNCHANGED <<tmVars, processes, spawn_errors>>

\* monitor_process line 126: new_cmd.spawn() returns Err; next pass of the loop
monitor_spawn_err(id) ==
    /\ MonAt(id, "spawn")
    /\ spawn_errors' = spawn_errors \cup {mon[id].name}
    /\ mon' = [mon EXCEPT ![id].pc = "sleep"]
    /\ UNCHANGED <<tmVars, processes, children>>

\* monitor_process lines 127-132: store the new child under the mutex
monitor_store(id) ==
    /\ MonAt(id, "store")
    /\ LET name == mon[id].name IN
       processes' = IF name \in DOMAIN processes
                    THEN [processes EXCEPT ![name].child_handle = mon[id].new_child,
                                           ![name].status = "Running"]
                    ELSE processes
    /\ mon' = [mon EXCEPT ![id].pc = "sleep", ![id].new_child = 0]
    /\ UNCHANGED <<tmVars, children, spawn_errors>>

(* ======================= signal_handler.rs ============================= *)

SignalTypes == {"CtrlC", "CtrlBreak", "ConsoleClose", "UserLogoff",
                "SystemShutdown", "Unknown"}

\* SignalType::is_immediate_exit
is_immediate_exit(sig) == sig \in {"ConsoleClose", "UserLogoff", "SystemShutdown"}

\* is_main_loop_running: the stub of lines 133-137
is_main_loop_running == TRUE

\* is_shutdown_requested
is_shutdown_requested == SHUTDOWN_FLAG

\* u64::saturating_sub
saturating_sub(a, b) == IF a >= b THEN a - b ELSE 0

Alive == exit_code = "running"

HandlerAt(h, pc) == h \in DOMAIN handlers /\ handlers[h].pc = pc

\* a handler that has returned; of the first signal's handler the model keeps
\* the signal's class
HandlerDone(h) == [pc |-> "done", first |-> handlers[h].first,
                   immediate |-> handlers[h].first /\ handlers[h].immediate,
                   current_time |-> 0]

\* the forced monitor sleeping the graceful timeout instead of its own
start_forced_exit_monitor_short(monitors) ==
    Append(monitors, now + GRACEFUL_SHUTDOWN_TIMEOUT_SECONDS)

\* start_forced_exit_monitor: the forced monitors after the call; the new
\* thread sleeps FORCED_SHUTDOWN_TIMEOUT_SECONDS from now
start_forced_exit_monitor(monitors) ==
    Append(monitors, now + FORCED_SHUTDOWN_TIMEOUT_SECONDS)

\* start_graceful_exit_monitor: the graceful monitors after the call; the new
\* thread takes start_time = Instant::now() and sleeps one second
start_graceful_exit_monitor(monitors) ==
    monitors \cup {[start |-> now, wake |-> now + 1]}

\* a handler that goes on to its monitors without storing SHUTDOWN_FLAG
Signal_no_store(sig) ==
    /\ Alive
    /\ Len(handlers) < MaxSignals
    /\ handlers' = Append(handlers, [pc |-> "swap", first |-> FALSE,
                                     immediate |-> is_immediate_exit(sig),
                                     current_time |-> now])
    /\ UNCHANGED <<SHUTDOWN_FLAG, GRACEFUL_SHUTDOWN_STARTED, SHUTDOWN_START_TIME, now,
                   graceful_monitors, forced_monitors, main_pc, exit_code>>

\* a handler that flips SHUTDOWN_FLAG instead of storing true
Signal_toggle(sig) ==
    /\ Alive
    /\ Len(handlers) < MaxSignals
    /\ handlers' = Append(handlers, [pc |-> "swap", first |-> FALSE,
                                     immediate |-> is_immediate_exit(sig),
                                     current_time |-> now])
    /\ SHUTDOWN_FLAG' = ~SHUTDOWN_FLAG
    /\ UNCHANGED <<GRACEFUL_SHUTDOWN_STARTED, SHUTDOWN_START_TIME, now,
                   graceful_monitors, forced_monitors, main_pc, exit_code>>

\* console_ctrl_handler lines 55-66: a signal arrives; the handler reads the
\* clock and stores SHUTDOWN_FLAG = true
Signal(sig) ==
    /\ Alive
    /\ Len(handlers) < MaxSignals
    /\ handlers' = Append(handlers, [pc |-> "swap", first |-> FALSE,
                                     immediate |-> is_immediate_exit(sig),
                                     current_time |-> now])
    /\ SHUTDOWN_FLAG' = TRUE
    /\ UNCHANGED <<GRACEFUL_SHUTDOWN_STARTED, SHUTDOWN_START_TIME, now,
                   graceful_monitors, forced_monitors, main_pc, exit_code>>

\* a swap that flips GRACEFUL_SHUTDOWN_STARTED instead of storing true
handler_swap_toggle(h) ==
    /\ Alive
    /\ HandlerAt(h, "swap")
    /\ GRACEFUL_SHUTDOWN_STARTED' = ~GRACEFUL_SHUTDOWN_STARTED
    /\ handlers' = IF ~GRACEFUL_SHUTDOWN_STARTED
                   THEN [handlers EXCEPT ![h].pc = "store_time", ![h].first = TRUE]
                   ELSE [handlers EXCEPT ![h].pc = "again", ![h].immediate = FALSE]
    /\ UNCHANGED <<SHUTDOWN_FLAG, SHUTDOWN_START_TIME, now, graceful_monitors,
                   forced_monitors, main_pc, exit_code>>

\* line 69: GRACEFUL_SHUTDOWN_STARTED.swap(true)
handler_swap(h) ==
    /\ Alive
    /\ HandlerAt(h, "swap")
    /\ GRACEFUL_SHUTDOWN_STARTED' = TRUE
    /\ handlers' = IF ~GRACEFUL_SHUTDOWN_STARTED
                   THEN [handlers EXCEPT ![h].pc = "store_time", ![h].first = TRUE]
                   ELSE [handlers EXCEPT ![h].pc = "again", ![h].immediate = FALSE]
    /\ UNCHANGED <<SHUTDOWN_FLAG, SHUTDOWN_START_TIME, now, graceful_monitors,
                   forced_monitors, main_pc, exit_code>>

\* line 70: first signal, SHUTDOWN_START_TIME.store(current_time)
handler_store_time(h) ==
    /\ Alive
    /\ HandlerAt(h, "store_time")
    /\ SHUTDOWN_START_TIME' = handlers[h].current_time
    /\ handlers' = [handlers EXCEPT ![h].pc = "start_monitor", ![h].current_time = 0]
    /\ UNCHANGED <<SHUTDOWN_FLAG, GRACEFUL_SHUTDOWN_STARTED, now, graceful_monitors,
                   forced_monitors, main_pc, exit_code>>

\* lines 74-81: first signal, start the monitor of the signal's class
handler_start_monitor(h) ==
    /\ Alive
    /\ HandlerAt(h, "start_monitor")
    /\ IF handlers[h].immediate
       THEN /\ forced_monitors' = start_forced_exit_monitor(forced_monitors)
            /\ UNCHANGED graceful_monitors
       ELSE /\ graceful_monitors' = start_graceful_exit_monitor(graceful_monitors)
            /\ UNCHANGED forced_monitors
    /\ handlers' = [handlers EXCEPT ![h] = HandlerDone(h)]
    /\ UNCHANGED <<SHUTDOWN_FLAG, GRACEFUL_SHUTDOWN_STARTED, SHUTDOWN_START_TIME,
                   now, main_pc, exit_code>>

\* a subsequent signal that is logged and starts nothing
handler_again_ignored(h) ==
    /\ Alive
    /\ HandlerAt(h, "again")
    /\ handlers' = [handlers EXCEPT ![h] = HandlerDone(h)]
    /\ UNCHANGED <<SHUTDOWN_FLAG, GRACEFUL_SHUTDOWN_STARTED, SHUTDOWN_START_TIME,
                   now, graceful_monitors, forced_monitors, main_pc, exit_code>>

\* lines 83-90: a subsequent signal; elapsed > 5 starts a forced monitor
handler_again(h) ==
    /\ Alive
    /\ HandlerAt(h, "again")
    /\ LET elapsed == saturating_sub(handlers[h].current_time, SHUTDOWN_START_TIME) IN
       forced_monitors' = IF elapsed > SubsequentSignalThreshold
                          THEN start_forced_exit_monitor(forced_monitors)
                          ELSE forced_monitors
    /\ handlers' = [handlers EXCEPT ![h] = HandlerDone(h)]
    /\ UNCHANGED <<SHUTDOWN_FLAG, GRACEFUL_SHUTDOWN_STARTED, SHUTDOWN_START_TIME,
                   now, graceful_monitors, main_pc, exit_code>>

\* a graceful monitor that gives up at its timeout without escalating
graceful_monitor_wake_gives_up(m) ==
    /\ Alive
    /\ m \in graceful_monitors
    /\ now = m.wake
    /\ graceful_monitors' =
          IF now - m.start < GRACEFUL_SHUTDOWN_TIMEOUT_SECONDS
          THEN (graceful_monitors \ {m}) \cup {[m EXCEPT !.wake = now + 1]}
          ELSE graceful_monitors \ {m}
    /\ UNCHANGED <<SHUTDOWN_FLAG, GRACEFUL_SHUTDOWN_STARTED, SHUTDOWN_START_TIME,
                   now, handlers, forced_monitors, main_pc, exit_code>>

\* start_graceful_exit_monitor lines 103-114: the monitor wakes from its
\* one-second sleep
graceful_monitor_wake(m) ==
    /\ Alive
    /\ m \in graceful_monitors
    /\ now = m.wake
    /\ IF ~is_main_loop_running
       THEN /\ graceful_monitors' = graceful_monitors \ {m}
            /\ UNCHANGED forced_monitors
       ELSE IF now - m.start < GRACEFUL_SHUTDOWN_TIMEOUT_SECONDS
       THEN /\ graceful_monitors' = (graceful_monitors \ {m})
                                       \cup {[m EXCEPT !.wake = now + 1]}
            /\ UNCHANGED forced_monitors
       ELSE /\ graceful_monitors' = graceful_monitors \ {m}
            /\ forced_monitors' = start_forced_exit_monitor(forced_monitors)
    /\ UNCHANGED <<SHUTDOWN_FLAG, GRACEFUL_SHUTDOWN_STARTED, SHUTDOWN_START_TIME,
                   now, handlers, main_pc, exit_code>>

\* start_forced_exit_monitor lines 121-128: the sleep is over,
\* TerminateProcess(process_handle, 1)
forced_monitor_fire(w) ==
    /\ Alive
    /\ w \in DOMAIN forced_monitors
    /\ now = forced_monitors[w]
    /\ exit_code' = "1"
    /\ UNCHANGED <<SHUTDOWN_FLAG, GRACEFUL_SHUTDOWN_STARTED, SHUTDOWN_START_TIME,
                   now, handlers, graceful_monitors, forced_monitors, main_pc>>

\* the main thread is blocked: in the sleep of its polling loop (main.rs line
\* 130, at most MainLoopSleepSeconds after the flag was set) or in the join
\* of a stop_thread; every other step of daemon_main_loop takes no time
main_blocked ==
    \/ main_pc = "loop" /\ now < SHUTDOWN_START_TIME + MainLoopSleepSeconds
    \/ main_pc = "stopping" /\ stop_all.pc = "join"
    \/ main_pc = "exited"

\* One second passes.  The model's clock starts with the first signal; the
\* steps of a signal handler and of the main thread take no time, and a
\* sleeping thread wakes in the second its sleep ends.
Tick ==
    /\ Alive
    /\ SHUTDOWN_FLAG
    /\ now < ClockStart + MaxTime
    /\ \A h \in DOMAIN handlers : handlers[h].pc = "done"
    /\ \A m \in graceful_monitors : m.wake > now
    /\ \A w \in DOMAIN forced_monitors : forced_monitors[w] > now
    /\ main_blocked
    /\ now' = now + 1
    /\ UNCHANGED <<SHUTDOWN_FLAG, GRACEFUL_SHUTDOWN_STARTED, SHUTDOWN_START_TIME,
                   handlers, graceful_monitors, forced_monitors, main_pc, exit_code>>

(* ================= signal_handler.rs: SignalHandler ==================== *)

\* the threads that call register / unregister on the one SignalHandler
RegCallers == {"r1", "r2"}

NoRegCall == [op |-> "none", pc |-> "idle", result |-> "none"]

\* SignalHandler::new (143-147), no handler in the console's list
InitReg ==
    /\ handler_registered = FALSE
    /\ ctrl_handlers = 0
    /\ reg = [c \in RegCallers |-> NoRegCall]
    /\ registered_ok = 0

\* register line 151-153: load handler_registered; Err when it is true
register_load(c) ==
    /\ reg[c].pc = "idle"
    /\ reg' = [reg EXCEPT ![c] =
                  IF handler_registered
                  THEN [op |-> "register", pc |-> "idle", result |-> "Err"]
                  ELSE [op |-> "register", pc |-> "call", result |-> "none"]]
    /\ UNCHANGED <<handler_registered, ctrl_handlers, registered_ok>>

\* register lines 155-159: SetConsoleCtrlHandler(Some(console_ctrl_handler),
\* TRUE) adds an entry to the list (ok), or fails and register returns Err
register_call(c, ok) ==
    /\ reg[c].op = "register" /\ reg[c].pc = "call"
    /\ IF ok
       THEN /\ ctrl_handlers < MaxCtrlHandlers
            /\ ctrl_handlers' = ctrl_handlers + 1
            /\ reg' = [reg EXCEPT ![c].pc = "store"]
       ELSE /\ reg' = [reg EXCEPT ![c].pc = "idle", ![c].result = "Err"]
            /\ UNCHANGED ctrl_handlers
    /\ UNCHANGED <<handler_registered, registered_ok>>

\* register lines 161-165: store true, Ok(())
register_store(c) ==
    /\ reg[c].op = "register" /\ reg[c].pc = "store"
    /\ handler_registered' = TRUE
    /\ reg' = [reg EXCEPT ![c].pc = "idle", ![c].result = "Ok"]
    /\ registered_ok' = registered_ok + 1
    /\ UNCHANGED ctrl_handlers

\* unregister lines 169-171: load handler_registered; Ok(()) when it is false
unregister_load(c) ==
    /\ reg[c].pc = "idle"
    /\ reg' = [reg EXCEPT ![c] =
                  IF ~handler_registered
                  THEN [op |-> "unregister", pc |-> "idle", result |-> "Ok"]
                  ELSE [op |-> "unregister", pc |-> "call", result |-> "none"]]
    /\ UNCHANGED <<handler_registered, ctrl_handlers, registered_ok>>

\* unregister lines 173-177: SetConsoleCtrlHandler(.., FALSE) removes one
\* entry (ok), or fails (always so on an empty list) and unregister returns Err
unregister_call(c, ok) ==
    /\ reg[c].op = "unregister" /\ reg[c].pc = "call"
    /\ IF ok
       THEN /\ ctrl_handlers > 0
            /\ ctrl_handlers' = ctrl_handlers - 1
            /\ reg' = [reg EXCEPT ![c].pc = "store"]
       ELSE /\ reg' = [reg EXCEPT ![c].pc = "idle", ![c].result = "Err"]
            /\ UNCHANGED ctrl_handlers
    /\ UNCHANGED <<handler_registered, registered_ok>>

\* unregister lines 179-182: store false, Ok(())
unregister_store(c) ==
    /\ reg[c].op = "unregister" /\ reg[c].pc = "store"
    /\ handler_registered' = FALSE
    /\ reg' = [reg EXCEPT ![c].pc = "idle", ![c].result = "Ok"]
    /\ registered_ok' = 0
    /\ UNCHANGED ctrl_handlers

(* ============================== main.rs ================================ *)

\* daemon_main_loop line 103: the loop condition sees the shutdown request
main_poll ==
    /\ Alive
    /\ main_pc = "loop"
    /\ is_shutdown_requested
    /\ main_pc' = "stop_all"
    /\ UNCHANGED <<SHUTDOWN_FLAG, GRACEFUL_SHUTDOWN_STARTED, SHUTDOWN_START_TIME,
                   now, handlers, graceful_monitors, forced_monitors, exit_code>>

\* line 139: thread_manager.stop_all_threads() begins
main_stop_all ==
    /\ Alive
    /\ main_pc = "stop_all"
    /\ stop_all_snapshot
    /\ main_pc' = "stopping"
    /\ UNCHANGED <<SHUTDOWN_FLAG, GRACEFUL_SHUTDOWN_STARTED, SHUTDOWN_START_TIME,
                   now, handlers, graceful_monitors, forced_monitors, exit_code>>

\* stop_all_threads returns to daemon_main_loop
main_stop_all_returns ==
    /\ Alive
    /\ main_pc = "stopping"
    /\ stop_all_clear
    /\ main_pc' = "cleanup"
    /\ UNCHANGED <<SHUTDOWN_FLAG, GRACEFUL_SHUTDOWN_STARTED, SHUTDOWN_START_TIME,
                   now, handlers, graceful_monitors, forced_monitors, exit_code>>

\* lines 140-165: the main loop has ended; cleanup, main returns Ok(())
main_exit ==
    /\ Alive
    /\ main_pc = "cleanup"
    /\ main_pc' = "exited"
    /\ exit_code' = "0"
    /\ UNCHANGED <<SHUTDOWN_FLAG, GRACEFUL_SHUTDOWN_STARTED, SHUTDOWN_START_TIME,
                   now, handlers, graceful_monitors, forced_monitors>>

\* main.rs lines 65 and 80: the worker body returns once it has loaded its
\* shutdown flag as true
worker_body_returns(id) ==
    /\ should_shutdown(id)
    /\ body_returns(id)

(* ================= exception_handler.rs: ExceptionHandler ============== *)

\* the ExceptionHandler instances of the process
HandlerInstances == {"h1", "h2"}

\* ExceptionHandler::new
ExceptionHandler_new ==
    [installed |-> FALSE, previous_filter |-> "None", pc |-> "idle", last |-> "none"]

InitEH ==
    /\ EXCEPTION_HANDLER_INSTALLED = FALSE
    /\ top_level_filter = "os_default"
    /\ panic_hooks = 0
    /\ eh = [h \in HandlerInstances |-> ExceptionHandler_new]
    /\ EXCEPTION_COUNT = 0
    /\ filter_calls = 0
    /\ filter_last = [input |-> "none", logged |-> FALSE, outcome |-> "none"]

\* an install that does not look at the process-wide flag
install_begin_unguarded(h) ==
    /\ eh[h].pc = "idle"
    /\ panic_hooks < MaxInstalls
    /\ IF eh[h].installed
       THEN /\ eh' = [eh EXCEPT ![h].last = "install_err"]
            /\ UNCHANGED EXCEPTION_HANDLER_INSTALLED
       ELSE /\ EXCEPTION_HANDLER_INSTALLED' = TRUE
            /\ eh' = [eh EXCEPT ![h].pc = "set_filter"]
    /\ UNCHANGED <<top_level_filter, panic_hooks>>

\* install lines 164-170: Err when this instance is installed; then
\* EXCEPTION_HANDLER_INSTALLED.swap(true), Err when it was true already
install_begin(h) ==
    /\ eh[h].pc = "idle"
    /\ panic_hooks < MaxInstalls
    /\ IF eh[h].installed
       THEN /\ eh' = [eh EXCEPT ![h].last = "install_err"]
            /\ UNCHANGED EXCEPTION_HANDLER_INSTALLED
       ELSE /\ EXCEPTION_HANDLER_INSTALLED' = TRUE
            /\ eh' = IF EXCEPTION_HANDLER_INSTALLED
                     THEN [eh EXCEPT ![h].last = "install_err"]
                     ELSE [eh EXCEPT ![h].pc = "set_filter"]
    /\ UNCHANGED <<top_level_filter, panic_hooks>>

\* install lines 172-174: previous_filter = SetUnhandledExceptionFilter(ours)
install_set_filter(h) ==
    /\ eh[h].pc = "set_filter"
    /\ top_level_filter' = "daemon"
    /\ eh' = [eh EXCEPT ![h].previous_filter = top_level_filter,
                        ![h].pc = "set_installed"]
    /\ UNCHANGED <<EXCEPTION_HANDLER_INSTALLED, panic_hooks>>

\* install lines 176-189: installed = true, chain the panic hook, Ok(())
install_finish(h) ==
    /\ eh[h].pc = "set_installed"
    /\ panic_hooks' = panic_hooks + 1
    /\ eh' = [eh EXCEPT ![h].installed = TRUE, ![h].pc = "idle",
                        ![h].last = "install_ok"]
    /\ UNCHANGED <<EXCEPTION_HANDLER_INSTALLED, top_level_filter>>

\* uninstall (also run by Drop) lines 193-199: Ok at once when not installed,
\* else SetUnhandledExceptionFilter(previous_filter)
uninstall_begin(h) ==
    /\ eh[h].pc = "idle"
    /\ IF ~eh[h].installed
       THEN /\ eh' = [eh EXCEPT ![h].last = "uninstall_ok"]
            /\ UNCHANGED top_level_filter
       ELSE /\ top_level_filter' = eh[h].previous_filter
            /\ eh' = [eh EXCEPT ![h].pc = "clear_installed"]
    /\ UNCHANGED <<EXCEPTION_HANDLER_INSTALLED, panic_hooks>>

\* uninstall line 201: installed = false
uninstall_clear(h) ==
    /\ eh[h].pc = "clear_installed"
    /\ eh' = [eh EXCEPT ![h].installed = FALSE, ![h].pc = "store_flag"]
    /\ UNCHANGED <<EXCEPTION_HANDLER_INSTALLED, top_level_filter, panic_hooks>>

\* uninstall lines 202-205: EXCEPTION_HANDLER_INSTALLED.store(false), Ok(())
uninstall_store(h) ==
    /\ eh[h].pc = "store_flag"
    /\ EXCEPTION_HANDLER_INSTALLED' = FALSE
    /\ eh' = [eh EXCEPT ![h].pc = "idle", ![h].last = "uninstall_ok"]
    /\ UNCHANGED <<top_level_filter, panic_hooks>>

(* ============ exception_handler.rs: unhandled_exception_filter ========= *)

\* the exception codes the filter terminates the process for (match, 140-141)
FatalCodes == {"EXCEPTION_STACK_OVERFLOW", "EXCEPTION_NONCONTINUABLE_EXCEPTION"}

\* exception codes the OS can report: the two fatal ones, some of the named
\* ones (14-34) and one without a name
ExceptionCodes ==
    FatalCodes \cup {"EXCEPTION_ACCESS_VIOLATION", "EXCEPTION_INT_DIVIDE_BY_ZERO",
                     "EXCEPTION_BREAKPOINT", "unknown"}

\* what the OS can hand to the filter: a record with a code, or a null
\* EXCEPTION_POINTERS / a null ExceptionRecord
FilterInputs == ExceptionCodes \cup {"null_info", "null_record"}

\* a filter that also terminates the process on an access violation
unhandled_exception_filter_strict(input) ==
    /\ Alive
    /\ top_level_filter = "daemon"
    /\ filter_calls < MaxExceptions
    /\ filter_calls' = filter_calls + 1
    /\ IF input \in {"null_info", "null_record"}
       THEN /\ filter_last' = [input |-> input, logged |-> FALSE,
                               outcome |-> "EXCEPTION_CONTINUE_SEARCH"]
            /\ UNCHANGED <<EXCEPTION_COUNT, exit_code>>
       ELSE /\ EXCEPTION_COUNT' = EXCEPTION_COUNT + 1
            /\ IF input \in FatalCodes \cup {"EXCEPTION_ACCESS_VIOLATION"}
               THEN /\ filter_last' = [input |-> input, logged |-> TRUE,
                                       outcome |-> "exit"]
                    /\ exit_code' = "1"
               ELSE /\ filter_last' = [input |-> input, logged |-> TRUE,
                                       outcome |-> "EXCEPTION_CONTINUE_SEARCH"]
                    /\ UNCHANGED exit_code
    /\ UNCHANGED <<EXCEPTION_HANDLER_INSTALLED, top_level_filter, panic_hooks, eh>>
    /\ UNCHANGED <<SHUTDOWN_FLAG, GRACEFUL_SHUTDOWN_STARTED, SHUTDOWN_START_TIME, now,
                   handlers, graceful_monitors, forced_monitors, main_pc>>

\* unhandled_exception_filter (115-148), called by the OS while the filter is
\* the process's top-level filter: null pointers give EXCEPTION_CONTINUE_SEARCH
\* at once (116-123); otherwise EXCEPTION_COUNT.fetch_add(1), log_error, and
\* std::process::exit(1) for the fatal codes, EXCEPTION_CONTINUE_SEARCH for
\* the others.  What the default handler does afterwards is the OS's part.
\* The u32 counter wraps after 2^32 calls, far beyond MaxExceptions.
unhandled_exception_filter(input) ==
    /\ Alive
    /\ top_level_filter = "daemon"
    /\ filter_calls < MaxExceptions
    /\ filter_calls' = filter_calls + 1
    /\ IF input \in {"null_info", "null_record"}
       THEN /\ filter_last' = [input |-> input, logged |-> FALSE,
                               outcome |-> "EXCEPTION_CONTINUE_SEARCH"]
            /\ UNCHANGED <<EXCEPTION_COUNT, exit_code>>
       ELSE /\ EXCEPTION_COUNT' = EXCEPTION_COUNT + 1
            /\ IF input \in FatalCodes
               THEN /\ filter_last' = [input |-> input, logged |-> TRUE,
                                       outcome |-> "exit"]
                    /\ exit_code' = "1"
               ELSE /\ filter_last' = [input |-> input, logged |-> TRUE,
                                       outcome |-> "EXCEPTION_CONTINUE_SEARCH"]
                    /\ UNCHANGED exit_code
    /\ UNCHANGED <<EXCEPTION_HANDLER_INSTALLED, top_level_filter, panic_hooks, eh>>
    /\ UNCHANGED <<SHUTDOWN_FLAG, GRACEFUL_SHUTDOWN_STARTED, SHUTDOWN_START_TIME, now,
                   handlers, graceful_monitors, forced_monitors, main_pc>>

(* ===================== config_parser.rs: ConfigParser ================== *)

\* A line is a sequence of characters.  str::trim
RECURSIVE trim_start(_)
trim_start(s) == IF s # <<>> /\ Head(s) = " " THEN trim_start(Tail(s)) ELSE s

RECURSIVE trim_end(_)
trim_end(s) ==
    IF s # <<>> /\ s[Len(s)] = " " THEN trim_end(SubSeq(s, 1, Len(s) - 1)) ELSE s

trim(s) == trim_end(trim_start(s))

\* str::starts_with(char)
starts_with(s, c) == s # <<>> /\ s[1] = c

\* str::contains(char)
contains(s, c) == \E i \in DOMAIN s : s[i] = c

\* str::split(char).collect()
RECURSIVE split(_, _)
split(s, c) ==
    IF ~contains(s, c)
    THEN <<s>>
    ELSE LET i == CHOOSE k \in DOMAIN s : s[k] = c /\ \A j \in 1..(k - 1) : s[j] # c
         IN  <<SubSeq(s, 1, i - 1)>> \o split(SubSeq(s, i + 1, Len(s)), c)

\* str::split_whitespace().collect()
RECURSIVE split_whitespace(_)
split_whitespace(s) ==
    LET t == trim_start(s)
    IN  IF t = <<>>
        THEN <<>>
        ELSE IF ~contains(t, " ")
        THEN <<t>>
        ELSE LET i == CHOOSE k \in DOMAIN t : t[k] = " " /\ \A j \in 1..(k - 1) : t[j] # " "
             IN  <<SubSeq(t, 1, i - 1)>> \o split_whitespace(SubSeq(t, i + 1, Len(t)))

Digits == {"0", "1", "2", "3", "4", "5", "6", "7", "8", "9"}

DigitValue(c) == CHOOSE v \in 0..9 : ToString(v) = c

RECURSIVE DecimalValue(_)
DecimalValue(s) ==
    IF s = <<>> THEN 0 ELSE 10 * DecimalValue(SubSeq(s, 1, Len(s) - 1)) + DigitValue(s[Len(s)])

\* str::parse::<u32>: an optional '+', then one or more digits.  (A value of
\* 2^32 or more is an error too; the lines of the model have few digits.)
parse_u32(s) ==
    LET d == IF starts_with(s, "+") THEN Tail(s) ELSE s
    IN  IF d # <<>> /\ \A i \in DOMAIN d : d[i] \in Digits
        THEN [ok |-> TRUE, value |-> DecimalValue(d)]
        ELSE [ok |-> FALSE, value |-> 0]

\* ProcessRestartPolicy::default().max_restarts
DefaultProcessMaxRestarts == 3

\* ProcessConfig::new(name) (65-88) on the daemon's platform: name.exe, the
\* directory of that name beside the current one, no arguments, the default
\* restart policy
ProcessConfig_new(name) ==
    [name |-> name,
     executable_path |-> name \o <<".", "e", "x", "e">>,
     working_directory |-> <<"$PARENT", "/">> \o name,
     arguments |-> <<>>,
     max_restarts |-> DefaultProcessMaxRestarts]

\* parse_simple_format (269-278)
parse_simple_format(line, line_number) ==
    LET process_name == trim(line)
    IN  IF process_name = <<>>
        THEN [kind |-> "None"]
        ELSE [kind |-> "Some", config |-> ProcessConfig_new(process_name)]

\* the working directory of parse_extended_format (300-312)
resolve_working_dir(config, working_dir) ==
    IF working_dir = <<".">>
    THEN config.working_directory
    ELSE IF (Len(working_dir) >= 2 /\ SubSeq(working_dir, 1, 2) = <<".", "/">>)
            \/ (Len(working_dir) >= 3 /\ SubSeq(working_dir, 1, 3) = <<".", ".", "/">>)
    THEN <<"$CURRENT", "/">> \o working_dir
    ELSE working_dir

\* parse_extended_format (280-340)
parse_extended_format(line, line_number) ==
    LET parts == split(line, ":")
        process_name == trim(parts[1])
        c0 == ProcessConfig_new(process_name)
        c1 == IF Len(parts) > 1 /\ trim(parts[2]) # <<>>
              THEN [c0 EXCEPT !.executable_path = trim(parts[2])] ELSE c0
        c2 == IF Len(parts) > 2 /\ trim(parts[3]) # <<>>
              THEN [c1 EXCEPT !.working_directory = resolve_working_dir(c1, trim(parts[3]))]
              ELSE c1
        c3 == IF Len(parts) > 3 /\ trim(parts[4]) # <<>>
              THEN [c2 EXCEPT !.arguments = split_whitespace(trim(parts[4]))] ELSE c2
    IN  IF Len(parts) < 2 \/ process_name = <<>>
        THEN [kind |-> "Err", line |-> line_number]
        ELSE IF Len(parts) > 4 /\ trim(parts[5]) # <<>>
        THEN IF parse_u32(trim(parts[5])).ok
             THEN [kind |-> "Some",
                   config |-> [c3 EXCEPT !.max_restarts = parse_u32(trim(parts[5])).value]]
             ELSE [kind |-> "Err", line |-> line_number]
        ELSE [kind |-> "Some", config |-> c3]

\* parse_line (251-267)
parse_line(l, line_number) ==
    LET line == trim(l)
    IN  IF line = <<>> \/ starts_with(line, "#")
        THEN [kind |-> "None"]
        ELSE IF contains(line, ":")
        THEN parse_extended_format(line, line_number)
        ELSE parse_simple_format(line, line_number)

\* an insert that keeps the entry a name already has
insert_config_keep_first(configs, config) ==
    [n \in DOMAIN configs \cup {config.name} |->
        IF n \in DOMAIN configs THEN configs[n] ELSE config]

\* configs.insert(config.name.clone(), config) (line 222)
insert_config(configs, config) ==
    [n \in DOMAIN configs \cup {config.name} |->
        IF n = config.name THEN config ELSE configs[n]]

\* HashMap::new()
NoConfigs == [n \in {} |-> 0]

\* the loop of load_config (212-224) from line line_number on: the first line
\* that fails to parse ends load_config with its error (the ? at line 218)
RECURSIVE read_lines(_, _, _)
read_lines(lines, line_number, configs) ==
    IF line_number > Len(lines)
    THEN [kind |-> "Ok", configs |-> configs, line |-> 0]
    ELSE LET r == parse_line(lines[line_number], line_number)
         IN  IF r.kind = "Err"
             THEN [kind |-> "Err", configs |-> NoConfigs, line |-> r.line]
             ELSE IF r.kind = "None"
             THEN read_lines(lines, line_number + 1, configs)
             ELSE read_lines(lines, line_number + 1, insert_config(configs, r.config))

\* lines a configuration file is made of: empty, blank, comments, simple and
\* extended entries for two names, and malformed entries
SampleLines ==
    { <<>>,
      <<" ">>,
      <<"#", "a">>,
      <<" ", "#">>,
      <<"a">>,
      <<" ", "b", " ">>,
      <<"a", ":", "x">>,
      <<"a", ":", "x", ":", ".", ":", "p", " ", "q", ":", "5">>,
      <<"b", ":", ":", ".", "/", "d", ":", ":", "+", "7">>,
      <<"b", ":", "x", ":", ":", ":", "z">>,
      <<":", "x">> }

\* ConfigParser::new (173-179); the file may or may not exist yet
InitCfg ==
    /\ config_file = [exists |-> FALSE, lines |-> <<>>, mtime |-> 0]
    /\ parser = [last_modified |-> {}, cached_configs |-> NoConfigs, cached_lines |-> <<>>]
    /\ load_result = [kind |-> "none", configs |-> NoConfigs, line |-> 0,
                      cached |-> FALSE, source |-> <<>>]

\* the operator creates the file or appends a line to it; the file's
\* modification time moves on, or stays within the clock's granularity
append_line(l, touch) ==
    /\ Len(config_file.lines) < MaxLines
    /\ config_file' = [exists |-> TRUE,
                       lines |-> Append(config_file.lines, l),
                       mtime |-> config_file.mtime + touch]
    /\ UNCHANGED <<parser, load_result>>

\* load_config (182-249): Err when the file does not exist; the cached map
\* when the file is not newer than last_modified; else the parse of all
\* lines, which on success replaces the cache.  (validate only logs.)
load_config ==
    IF ~config_file.exists
    THEN /\ load_result' = [kind |-> "Err", configs |-> NoConfigs, line |-> 0,
                            cached |-> FALSE, source |-> <<>>]
         /\ UNCHANGED <<config_file, parser>>
    ELSE IF \E last_mod \in parser.last_modified : config_file.mtime <= last_mod
    THEN /\ load_result' = [kind |-> "Ok", configs |-> parser.cached_configs, line |-> 0,
                            cached |-> TRUE, source |-> parser.cached_lines]
         /\ UNCHANGED <<config_file, parser>>
    ELSE LET r == read_lines(config_file.lines, 1, NoConfigs)
         IN  /\ load_result' = [kind |-> r.kind, configs |-> r.configs, line |-> r.line,
                                cached |-> FALSE, source |-> config_file.lines]
             /\ parser' = IF r.kind = "Ok"
                          THEN [last_modified |-> {config_file.mtime},
                                cached_configs |-> r.configs,
                                cached_lines |-> config_file.lines]
                          ELSE parser
             /\ UNCHANGED config_file

(* ----------------------- the ThreadManager alone ----------------------- *)

\* ThreadManager::new().with_restart_policy(policy)
InitTM ==
    /\ next_thread_id = 1
    /\ threads = <<>>
    /\ shutdown_signal = <<>>
    /\ sup = <<>>
    /\ creating = {}
    /\ joining = {}
    /\ stop_all = StopAllIdle
    /\ restart_counts = [n \in AllThreadNames |-> 0]

\* no body has been invoked
InitHist == invocations = <<>>

\* the threads that pass over all records under the registry mutex:
\* list_threads, health_check and the body of the HealthMonitor worker
ScanThreads == {"list_threads", "health_check", "health_monitor"}

NoScan == [pc |-> "idle", todo |-> {}]

\* ThreadManager::new (87-96): no lock is held; SignalHandler::new
InitAux ==
    /\ restart_mutex = "free"
    /\ status_lock = [id \in 1..MaxThreads |-> "free"]
    /\ scan = [t \in ScanThreads |-> NoScan]
    /\ InitReg

\* Mutex::new(HashMap::new()) (line 89): nobody holds the registry mutex
InitLock ==
    /\ registry_mutex = "free"
    /\ stopper = [c \in Callers |-> NoCall]

\* ProcessManager::new
InitPM ==
    /\ processes = <<>>
    /\ children = <<>>
    /\ mon = <<>>
    /\ spawn_errors = {}

\* the statics of signal_handler.rs, and main before any signal
InitSig ==
    /\ SHUTDOWN_FLAG = FALSE
    /\ GRACEFUL_SHUTDOWN_STARTED = FALSE
    /\ SHUTDOWN_START_TIME = 0
    /\ now = ClockStart
    /\ handlers = <<>>
    /\ graceful_monitors = {}
    /\ forced_monitors = <<>>
    /\ main_pc = "loop"
    /\ exit_code = "running"

InitThreads ==
    /\ InitTM
    /\ max_restarts \in 0..MaxPolicy
    /\ InitPM
    /\ InitSig
    /\ InitEH
    /\ InitPolicy
    /\ InitCfg
    /\ InitHist
    /\ InitLock
    /\ InitAux

\* what a step of the ThreadManager alone leaves alone
TMOnly == UNCHANGED <<pmVars, sigVars, extVars>>

NextThreads ==
    \/ \E n \in ThreadNames, er \in BOOLEAN : create_thread_spawn(n, er) /\ TMOnly
    \/ \E id \in creating : create_thread_insert(id) /\ TMOnly
    \/ \E id \in Allocated : body_returns(id) /\ TMOnly
    \/ \E id \in Allocated : body_panics(id) /\ TMOnly
    \/ \E id \in Allocated : sup_can_restart(id) /\ TMOnly
    \/ \E id \in Allocated : sup_decide(id) /\ TMOnly
    \/ \E id \in Allocated : sup_record_restart(id) /\ TMOnly
    \/ \E id \in Allocated : sup_set_restarting(id) /\ TMOnly
    \/ \E id \in Allocated : sup_wake(id) /\ TMOnly
    \/ \E id \in Allocated : sup_no_restart(id) /\ TMOnly
    \/ \E id \in Allocated : sup_set_failed(id) /\ TMOnly
    \/ \E id \in Allocated : start_thread(id) /\ TMOnly
    \/ \E id \in Allocated : stop_thread(id) /\ TMOnly
    \/ \E id \in Allocated : stop_thread_join(id) /\ TMOnly
    \/ \E id \in Allocated : stop_all_stop(id) /\ TMOnly
    \/ stop_all_snapshot /\ TMOnly
    \/ stop_all_join /\ TMOnly
    \/ stop_all_clear /\ TMOnly

SpecThreads == InitThreads /\ [][NextThreads]_vars

(* ---------------- the ProcessManager and its monitor workers ----------- *)

InitProc ==
    /\ InitTM
    /\ max_restarts = MaxPolicy
    /\ InitPM
    /\ InitSig
    /\ InitEH
    /\ InitPolicy
    /\ InitCfg
    /\ InitHist
    /\ InitLock
    /\ InitAux

PMOnly == UNCHANGED <<sigVars, extVars>>

NextProc ==
    \/ \E p \in ProcNames, pol \in RestartPolicies : start_process(p, pol) /\ PMOnly
    \/ \E p \in ProcNames : start_process_rejected(p) /\ PMOnly
    \/ \E p \in ProcNames : start_process_spawn_err(p) /\ PMOnly
    \/ \E c \in ChildIds : child_exits(c) /\ UNCHANGED tmVars /\ PMOnly
    \/ \E id \in DOMAIN mon : monitor_check(id) /\ PMOnly
    \/ \E id \in DOMAIN mon : monitor_spawn(id) /\ PMOnly
    \/ \E id \in DOMAIN mon : monitor_spawn_err(id) /\ PMOnly
    \/ \E id \in DOMAIN mon : monitor_store(id) /\ PMOnly
    \/ \E id \in Allocated : stop_thread(id) /\ UNCHANGED pmVars /\ PMOnly
    \/ \E id \in Allocated : stop_thread_join(id) /\ UNCHANGED pmVars /\ PMOnly

SpecProc == InitProc /\ [][NextProc]_vars

(* ------------- the daemon: signals, main loop and its workers ---------- *)

\* daemon_main_loop lines 48-98 have run: the policy is set, the workers are
\* created (create_thread) and started (start_thread).  The workers here are
\* those whose body does not panic (main.rs injects a test panic into
\* Worker-2 only, lines 69-72); the supervision of a faulting body is
\* SpecThreads' part.
InitSignal ==
    /\ next_thread_id = SigWorkers + 1
    /\ threads = [i \in 1..SigWorkers |->
                   [ThreadInfo_new(WorkerName(i)) EXCEPT !.status = "Running"]]
    /\ shutdown_signal = [i \in 1..SigWorkers |-> FALSE]
    /\ sup = [i \in 1..SigWorkers |-> SpawnedThread(WorkerName(i), TRUE)]
    /\ creating = {}
    /\ joining = {}
    /\ stop_all = StopAllIdle
    /\ restart_counts = [n \in AllThreadNames |-> 0]
    /\ max_restarts = MainMaxRestarts
    /\ InitPM
    /\ InitSig
    /\ InitEH
    /\ InitPolicy
    /\ InitCfg
    /\ InitHist
    /\ InitLock
    /\ InitAux

\* a step of a worker or of stop_all_threads while the process runs
TMStep == Alive /\ UNCHANGED <<pmVars, sigVars, extVars>>

SigStep == UNCHANGED <<tmVars, pmVars, extVars>>

NextSignal ==
    \/ \E sig \in SignalTypes : Signal(sig) /\ SigStep
    \/ \E h \in DOMAIN handlers : handler_swap(h) /\ SigStep
    \/ \E h \in DOMAIN handlers : handler_store_time(h) /\ SigStep
    \/ \E h \in DOMAIN handlers : handler_start_monitor(h) /\ SigStep
    \/ \E h \in DOMAIN handlers : handler_again(h) /\ SigStep
    \/ \E m \in graceful_monitors : graceful_monitor_wake(m) /\ SigStep
    \/ \E w \in DOMAIN forced_monitors : forced_monitor_fire(w) /\ SigStep
    \/ Tick /\ SigStep
    \/ main_poll /\ SigStep
    \/ main_stop_all /\ UNCHANGED <<pmVars, extVars>>
    \/ main_stop_all_returns /\ UNCHANGED <<pmVars, extVars>>
    \/ main_exit /\ SigStep
    \/ \E id \in Allocated : worker_body_returns(id) /\ TMStep
    \/ \E id \in Allocated : stop_all_stop(id) /\ TMStep
    \/ stop_all_join /\ TMStep

SpecSignal == InitSignal /\ [][NextSignal]_vars

(* ------- the daemon with a worker that ignores its shutdown flag ------- *)

\* the console delivers an interrupt (Ctrl+C) as the first signal
first_interrupt ==
    /\ Len(handlers) = 0
    /\ Signal("CtrlC")

\* any further console signal
later_signal(sig) ==
    /\ Len(handlers) > 0
    /\ Signal(sig)

\* The worker's body never returns (it does not look at its flag), so the
\* join inside stop_all_threads never returns either: the workers' and the
\* join's steps are absent.
NextForce ==
    \/ first_interrupt /\ SigStep
    \/ \E sig \in SignalTypes : later_signal(sig) /\ SigStep
    \/ \E h \in DOMAIN handlers : handler_swap(h) /\ SigStep
    \/ \E h \in DOMAIN handlers : handler_store_time(h) /\ SigStep
    \/ \E h \in DOMAIN handlers : handler_start_monitor(h) /\ SigStep
    \/ \E h \in DOMAIN handlers : handler_again(h) /\ SigStep
    \/ \E m \in graceful_monitors : graceful_monitor_wake(m) /\ SigStep
    \/ \E w \in DOMAIN forced_monitors : forced_monitor_fire(w) /\ SigStep
    \/ Tick /\ SigStep
    \/ main_poll /\ SigStep
    \/ main_stop_all /\ UNCHANGED <<pmVars, extVars>>
    \/ \E id \in Allocated : stop_all_stop(id) /\ TMStep

\* the operating system runs every handler, monitor and main-thread step that
\* can be taken, and time passes
FairForce ==
    /\ WF_vars(Tick /\ SigStep)
    /\ WF_vars(\E h \in DOMAIN handlers :
                  (handler_swap(h) \/ handler_store_time(h)
                     \/ handler_start_monitor(h) \/ handler_again(h)) /\ SigStep)
    /\ WF_vars(\E m \in graceful_monitors : graceful_monitor_wake(m) /\ SigStep)
    /\ WF_vars(\E w \in DOMAIN forced_monitors : forced_monitor_fire(w) /\ SigStep)
    /\ WF_vars(main_poll /\ SigStep)
    /\ WF_vars(main_stop_all /\ UNCHANGED <<pmVars, extVars>>)
    /\ WF_vars(\E id \in Allocated : stop_all_stop(id) /\ TMStep)

SpecForce == InitSignal /\ [][NextForce]_vars /\ FairForce

(* ------------- the daemon supervising one child process ---------------- *)

\* A daemon whose ThreadManager backs a ProcessManager: start_process("p", ..)
\* has returned (process_manager.rs 48-93), so the child runs, its record is
\* Running and its monitor worker is in the registry with status Created.
InitSupervised ==
    /\ next_thread_id = 2
    /\ threads = (1 :> ThreadInfo_new(MonitorName("p")))
    /\ shutdown_signal = (1 :> FALSE)
    /\ \E policy \in RestartPolicies :
          /\ sup = (1 :> SpawnedThread(MonitorName("p"), policy = Infinite))
          /\ processes = ("p" :> ProcessInfo_new(1, policy))
    /\ children = (1 :> [name |-> "p", state |-> "live"])
    /\ mon = (1 :> [pc |-> "sleep", name |-> "p", new_child |-> 0])
    /\ spawn_errors = {}
    /\ creating = {}
    /\ joining = {}
    /\ stop_all = StopAllIdle
    /\ restart_counts = [n \in AllThreadNames |-> 0]
    /\ max_restarts = MainMaxRestarts
    /\ InitSig
    /\ InitEH
    /\ InitPolicy
    /\ InitCfg
    /\ InitHist
    /\ InitLock
    /\ InitAux

\* a step of the process manager's side while the daemon runs
PMStep == Alive /\ UNCHANGED <<sigVars, extVars>>

NextSupervised ==
    \/ first_interrupt /\ SigStep
    \/ \E h \in DOMAIN handlers : handler_swap(h) /\ SigStep
    \/ \E h \in DOMAIN handlers : handler_store_time(h) /\ SigStep
    \/ \E h \in DOMAIN handlers : handler_start_monitor(h) /\ SigStep
    \/ \E m \in graceful_monitors : graceful_monitor_wake(m) /\ SigStep
    \/ \E w \in DOMAIN forced_monitors : forced_monitor_fire(w) /\ SigStep
    \/ Tick /\ SigStep
    \/ main_poll /\ SigStep
    \/ main_stop_all /\ UNCHANGED <<pmVars, extVars>>
    \/ main_stop_all_returns /\ UNCHANGED <<pmVars, extVars>>
    \/ main_exit /\ SigStep
    \/ \E id \in Allocated : stop_all_stop(id) /\ TMStep
    \/ stop_all_join /\ TMStep
    \/ \E c \in ChildIds : child_exits(c) /\ UNCHANGED tmVars /\ PMStep
    \/ \E id \in DOMAIN mon : monitor_check(id) /\ PMStep
    \/ \E id \in DOMAIN mon : monitor_spawn(id) /\ PMStep
    \/ \E id \in DOMAIN mon : monitor_spawn_err(id) /\ PMStep
    \/ \E id \in DOMAIN mon : monitor_store(id) /\ PMStep

SpecSupervised == InitSupervised /\ [][NextSupervised]_vars

(* ------------- create_thread, start_thread, stop_thread ---------------- *)

\* start_thread(id) by the caller that created the worker, before any
\* stop_thread(id)
start_before_stop(id) ==
    /\ ~should_shutdown(id)
    /\ start_thread(id)

\* The workers' bodies watch their shutdown flag: a body returns only once it
\* has loaded the flag as true (as the work_function of main.rs 63-81), and
\* it may panic at any time.
NextStop ==
    \/ \E n \in ThreadNames, er \in BOOLEAN : create_thread_spawn(n, er) /\ TMOnly
    \/ \E id \in creating : create_thread_insert(id) /\ TMOnly
    \/ \E id \in Allocated : start_before_stop(id) /\ TMOnly
    \/ \E id \in Allocated : worker_body_returns(id) /\ TMOnly
    \/ \E id \in Allocated : body_panics(id) /\ TMOnly
    \/ \E id \in Allocated : sup_can_restart(id) /\ TMOnly
    \/ \E id \in Allocated : sup_decide(id) /\ TMOnly
    \/ \E id \in Allocated : sup_record_restart(id) /\ TMOnly
    \/ \E id \in Allocated : sup_set_restarting(id) /\ TMOnly
    \/ \E id \in Allocated : sup_wake(id) /\ TMOnly
    \/ \E id \in Allocated : sup_no_restart(id) /\ TMOnly
    \/ \E id \in Allocated : sup_set_failed(id) /\ TMOnly
    \/ \E id \in Allocated : stop_thread(id) /\ TMOnly
    \/ \E id \in Allocated : stop_thread_join(id) /\ TMOnly
    \/ \E id \in Allocated : stop_all_stop(id) /\ TMOnly
    \/ stop_all_snapshot /\ TMOnly
    \/ stop_all_join /\ TMOnly
    \/ stop_all_clear /\ TMOnly

\* every worker thread that can take a step is scheduled, a body whose flag
\* is set returns, and a join whose thread has ended returns
FairStop ==
    \A id \in 1..MaxThreads :
        /\ WF_vars(/\ id \in Allocated
                    /\ \/ worker_body_returns(id) \/ sup_can_restart(id)
                       \/ sup_decide(id) \/ sup_record_restart(id)
                       \/ sup_set_restarting(id) \/ sup_wake(id)
                       \/ sup_no_restart(id) \/ sup_set_failed(id)
                    /\ TMOnly)
        /\ WF_vars(stop_thread_join(id) /\ TMOnly)
        /\ WF_vars(stop_all_join /\ TMOnly)

SpecStop == InitThreads /\ [][NextStop]_vars /\ FairStop

(* ------------- stop_thread and the registry mutex ---------------------- *)

TMLock == UNCHANGED <<pmVars, sigVars, ehVars, policyVars, cfgVars, histVars, auxVars>>

\* Workers whose bodies watch their flag and may panic, a caller of
\* stop_thread and a caller of stop_all_threads, with every acquisition of
\* the registry mutex a step that waits for the mutex to be free.
NextLock ==
    \/ \E n \in ThreadNames : create_thread_spawn(n, TRUE) /\ TMOnly
    \/ \E id \in creating : locked_section(create_thread_insert(id)) /\ TMOnly
    \/ \E id \in Allocated : worker_body_returns(id) /\ TMOnly
    \/ \E id \in Allocated : body_panics(id) /\ TMOnly
    \/ \E id \in Allocated : sup_can_restart(id) /\ TMOnly
    \/ \E id \in Allocated : sup_decide(id) /\ TMOnly
    \/ \E id \in Allocated : sup_record_restart(id) /\ TMOnly
    \/ \E id \in Allocated : locked_section(sup_set_restarting(id)) /\ TMOnly
    \/ \E id \in Allocated : sup_wake(id) /\ TMOnly
    \/ \E id \in Allocated : sup_no_restart(id) /\ TMOnly
    \/ \E id \in Allocated : locked_section(sup_set_failed(id)) /\ TMOnly
    \/ \E id \in Allocated : direct_stop_thread(id) /\ TMLock
    \/ \E c \in Callers : unlock_stop_thread(c) /\ TMLock
    \/ direct_stop_thread_join /\ TMLock
    \/ stop_all_between /\ locked_section(stop_all_snapshot) /\ TMOnly
    \/ \E id \in Allocated : stop_all_next(id) /\ TMLock
    \/ stop_all_join_leave /\ TMLock
    \/ stop_all_between /\ locked_section(stop_all_clear) /\ TMOnly

\* every worker thread and every caller that can take a step is scheduled, a
\* body whose flag is set returns, a join whose thread has ended returns, and
\* a supervisor that waits for the registry mutex gets it when the mutex is
\* free again and again (no caller starves it by re-locking for ever)
FairLock ==
    /\ \A id \in 1..MaxThreads :
          /\ WF_vars(/\ id \in Allocated
                      /\ \/ worker_body_returns(id) \/ sup_can_restart(id)
                         \/ sup_decide(id) \/ sup_record_restart(id)
                         \/ sup_wake(id) \/ sup_no_restart(id)
                      /\ TMOnly)
          /\ SF_vars(/\ id \in Allocated
                      /\ \/ locked_section(sup_set_restarting(id))
                         \/ locked_section(sup_set_failed(id))
                      /\ TMOnly)
    /\ \A c \in Callers : WF_vars(unlock_stop_thread(c) /\ TMLock)
    /\ WF_vars(direct_stop_thread_join /\ TMLock)
    /\ WF_vars(stop_all_join_leave /\ TMLock)

SpecLock == InitThreads /\ [][NextLock]_vars /\ FairLock

(* ------------- every lock of the ThreadManager, step by step ----------- *)

\* the thread of worker id (its supervision loop and, inside it, its body)
Sup(id) == "sup" \o ToString(id)

\* the HealthMonitor workers (start_health_monitor)
HealthMonitors == {id \in Allocated : sup[id].name = HealthMonitorName}

\* the thread that makes the pass s
ScanThread(s) ==
    IF s = "health_monitor"
    THEN Sup(CHOOSE id \in 1..MaxThreads : HealthMonitors # {} => id \in HealthMonitors)
    ELSE s

\* worker id is the HealthMonitor in the middle of a pass
Scanning(id) == id \in HealthMonitors /\ scan["health_monitor"].pc # "idle"

LocksFrame == UNCHANGED <<pmVars, sigVars, ehVars, policyVars, cfgVars, histVars, regVars>>

\* restart_manager.lock() (156, 163, 168, 415, 426) by thread t
lock_manager(t) ==
    /\ restart_mutex = "free"
    /\ restart_mutex' = t
    /\ UNCHANGED <<status_lock, scan, lockVars, tmVars>>

\* start_health_monitor (370-403): create_thread("HealthMonitor", body)
start_health_monitor ==
    /\ HealthMonitors = {}
    /\ create_thread_spawn(HealthMonitorName, TRUE)
    /\ UNCHANGED <<lockVars, locksVars>>

\* create_thread (110-115) of the one worker beside the HealthMonitor
create_worker ==
    /\ \A id \in Allocated : sup[id].name = HealthMonitorName
    /\ create_thread_spawn("a", TRUE)
    /\ UNCHANGED <<lockVars, locksVars>>

\* the supervisor of id comes to restart_manager_ref.lock() (157, 163, 168)
sup_lock_manager(id) ==
    /\ SupAt(id, "err") \/ SupAt(id, "record")
    /\ lock_manager(Sup(id))

\* lines 156-159 with the manager's mutex held; the guard goes with the block
sup_can_restart_locked(id) ==
    /\ restart_mutex = Sup(id)
    /\ sup_can_restart(id)
    /\ restart_mutex' = "free"
    /\ UNCHANGED <<status_lock, scan, lockVars>>

\* lines 162-170 with the manager's mutex held (record_restart, then
\* get_restart_count in a block of its own)
sup_record_restart_locked(id) ==
    /\ restart_mutex = Sup(id)
    /\ sup_record_restart(id)
    /\ restart_mutex' = "free"
    /\ UNCHANGED <<status_lock, scan, lockVars>>

\* threads_ref.lock() at 180 or 206
sup_lock_registry(id) ==
    /\ sup_wants_registry(id)
    /\ registry_free
    /\ registry_mutex' = Sup(id)
    /\ UNCHANGED <<stopper, locksVars, tmVars>>

\* set_status's self.status.write() (line 61) on the record found at 181 / 207
sup_lock_status(id) ==
    /\ sup_wants_registry(id)
    /\ registry_mutex = Sup(id)
    /\ id \in DOMAIN threads
    /\ status_lock[id] = "free"
    /\ status_lock' = [status_lock EXCEPT ![id] = Sup(id)]
    /\ UNCHANGED <<restart_mutex, scan, lockVars, tmVars>>

\* the supervisor's status write (182 / 208) and the end of both guards
sup_set_status_locked(id) ==
    /\ registry_mutex = Sup(id)
    /\ id \in DOMAIN threads => status_lock[id] = Sup(id)
    /\ sup_set_restarting(id) \/ sup_set_failed(id)
    /\ registry_mutex' = "free"
    /\ status_lock' = [status_lock EXCEPT ![id] = "free"]
    /\ UNCHANGED <<stopper, restart_mutex, scan>>

\* the one thread that calls list_threads, health_check and get_restart_info,
\* one after the other, is in none of them
ApiIdle ==
    /\ scan["list_threads"].pc = "idle"
    /\ scan["health_check"].pc = "idle"
    /\ restart_mutex # "get_restart_info"

\* get_restart_info line 415: restart_manager.lock()
get_restart_info_lock ==
    /\ ApiIdle
    /\ lock_manager("get_restart_info")

\* get_restart_info lines 416-418: (count, can_restart) is returned
get_restart_info_return ==
    /\ restart_mutex = "get_restart_info"
    /\ restart_mutex' = "free"
    /\ UNCHANGED <<status_lock, scan, lockVars, tmVars>>

\* a pass of the HealthMonitor's loop (376-378) begins: the worker comes to
\* its threads_ref.lock()
scan_call ==
    /\ scan["health_monitor"].pc = "idle"
    /\ \E id \in HealthMonitors : SupAt(id, "body") /\ ~should_shutdown(id)
    /\ scan' = [scan EXCEPT !["health_monitor"].pc = "want"]
    /\ UNCHANGED <<restart_mutex, status_lock, lockVars, tmVars>>

\* threads.lock() of list_threads (333), health_check (344) or the
\* HealthMonitor (378)
scan_lock(s) ==
    /\ IF s = "health_monitor" THEN scan[s].pc = "want" ELSE ApiIdle
    /\ registry_free
    /\ registry_mutex' = ScanThread(s)
    /\ scan' = [scan EXCEPT ![s] = [pc |-> "iter", todo |-> DOMAIN threads]]
    /\ UNCHANGED <<stopper, restart_mutex, status_lock, tmVars>>

\* the pass comes to the record of id and takes its status lock: the status
\* is read (list_threads, 336) or set to Error when the heartbeat is late and
\* to HealthCheck otherwise unless it is Error (health check, 357-362,
\* 391-395); the status lock is released
scan_status(s, id, late) ==
    /\ scan[s].pc = "iter"
    /\ id \in scan[s].todo
    /\ status_lock[id] = "free"
    /\ threads' = IF s = "list_threads" THEN threads
                  ELSE IF late THEN set_status(threads, id, "Error")
                  ELSE IF threads[id].status # "Error"
                  THEN set_status(threads, id, "HealthCheck")
                  ELSE threads
    /\ scan' = [scan EXCEPT ![s].todo = @ \ {id}]
    /\ UNCHANGED <<next_thread_id, shutdown_signal, sup, creating, joining,
                   stop_all, restart_counts, max_restarts>>
    /\ UNCHANGED <<restart_mutex, status_lock, lockVars>>

\* the pass is over: the guard of the registry mutex goes (339, 367, 398)
scan_return(s) ==
    /\ scan[s].pc = "iter"
    /\ scan[s].todo = {}
    /\ registry_mutex' = "free"
    /\ scan' = [scan EXCEPT ![s] = NoScan]
    /\ UNCHANGED <<stopper, restart_mutex, status_lock, tmVars>>

\* stop_thread line 272 by caller c: self.threads.lock()
stop_lock_registry(c, id) ==
    /\ registry_free
    /\ stopper[c].pc = "idle"
    /\ IF c = "stop_all" THEN stop_all.pc = "loop" /\ id \in stop_all.ids
       ELSE id \in Allocated
    /\ registry_mutex' = c
    /\ stopper' = [stopper EXCEPT ![c] = [pc |-> "registry", id |-> id, handle |-> FALSE]]
    /\ UNCHANGED <<locksVars, tmVars>>

\* stop_thread lines 291-293: the map does not hold the id, Err
stop_missing(c) ==
    /\ stopper[c].pc = "registry"
    /\ stopper[c].id \notin DOMAIN threads
    /\ registry_mutex' = "free"
    /\ stopper' = [stopper EXCEPT ![c] = NoCall]
    /\ IF c = "stop_all" THEN stop_all_stop(stopper[c].id) ELSE UNCHANGED tmVars
    /\ UNCHANGED locksVars

\* stop_thread line 275: set_status's self.status.write() on the record
stop_lock_status(c) ==
    /\ stopper[c].pc = "registry"
    /\ stopper[c].id \in DOMAIN threads
    /\ status_lock[stopper[c].id] = "free"
    /\ status_lock' = [status_lock EXCEPT ![stopper[c].id] = c]
    /\ stopper' = [stopper EXCEPT ![c].pc = "status"]
    /\ UNCHANGED <<registry_mutex, restart_mutex, scan, tmVars>>

\* a stop_thread that keeps the record's status lock when it goes on
stop_write_keeps_status(c) ==
    /\ stopper[c].pc = "status"
    /\ LET id == stopper[c].id IN
       /\ IF c = "stop_all" THEN stop_all_stop(id) ELSE stop_thread(id)
       /\ stopper' = [stopper EXCEPT ![c].pc = "locked", ![c].handle = threads[id].handle]
    /\ UNCHANGED <<registry_mutex, restart_mutex, status_lock, scan>>

\* stop_thread lines 274-278: the flag is set, Stopped is written, the status
\* lock is released and the handle is taken; the registry mutex is still held
stop_write(c) ==
    /\ stopper[c].pc = "status"
    /\ LET id == stopper[c].id IN
       /\ IF c = "stop_all" THEN stop_all_stop(id) ELSE stop_thread(id)
       /\ status_lock' = [status_lock EXCEPT ![id] = "free"]
       /\ stopper' = [stopper EXCEPT ![c].pc = "locked", ![c].handle = threads[id].handle]
    /\ UNCHANGED <<registry_mutex, restart_mutex, scan>>

\* A worker whose body watches its flag and may panic, the HealthMonitor
\* (whose body does nothing that panics), a caller of stop_thread, a caller of stop_all_threads and a
\* thread that calls list_threads, health_check and get_restart_info one
\* after the other; every lock acquisition that happens with another lock
\* held, or in a thread that can be joined, is a step of its own.
NextDeadlock ==
    \/ create_worker /\ LocksFrame
    \/ start_health_monitor /\ LocksFrame
    \/ \E id \in creating : locked_section(create_thread_insert(id)) /\ TMOnly
    \/ \E id \in Allocated : ~Scanning(id) /\ worker_body_returns(id) /\ TMOnly
    \/ \E id \in Allocated \ HealthMonitors : body_panics(id) /\ TMOnly
    \/ \E id \in Allocated : sup_lock_manager(id) /\ LocksFrame
    \/ \E id \in Allocated : sup_can_restart_locked(id) /\ LocksFrame
    \/ \E id \in Allocated : sup_decide(id) /\ TMOnly
    \/ \E id \in Allocated : sup_record_restart_locked(id) /\ LocksFrame
    \/ \E id \in Allocated : sup_lock_registry(id) /\ LocksFrame
    \/ \E id \in Allocated : sup_lock_status(id) /\ LocksFrame
    \/ \E id \in Allocated : sup_set_status_locked(id) /\ LocksFrame
    \/ \E id \in Allocated : sup_wake(id) /\ TMOnly
    \/ \E id \in Allocated : sup_no_restart(id) /\ TMOnly
    \/ get_restart_info_lock /\ LocksFrame
    \/ get_restart_info_return /\ LocksFrame
    \/ scan_call /\ LocksFrame
    \/ \E s \in ScanThreads : scan_lock(s) /\ LocksFrame
    \/ \E s \in ScanThreads, id \in Allocated, late \in BOOLEAN :
           scan_status(s, id, late) /\ LocksFrame
    \/ \E s \in ScanThreads : scan_return(s) /\ LocksFrame
    \/ stop_all_between /\ locked_section(stop_all_snapshot) /\ TMOnly
    \/ \E c \in Callers, id \in 1..MaxThreads : stop_lock_registry(c, id) /\ LocksFrame
    \/ \E c \in Callers : stop_missing(c) /\ LocksFrame
    \/ \E c \in Callers : stop_lock_status(c) /\ LocksFrame
    \/ \E c \in Callers : stop_write(c) /\ LocksFrame
    \/ \E c \in Callers : unlock_stop_thread(c) /\ TMLock
    \/ direct_stop_thread_join /\ TMLock
    \/ stop_all_join_leave /\ TMLock
    \/ stop_all_between /\ locked_section(stop_all_clear) /\ TMOnly

\* every worker may be restarted MaxPolicy times
InitDeadlock == InitThreads /\ max_restarts = MaxPolicy

SpecDeadlock == InitDeadlock /\ [][NextDeadlock]_vars

\* the threads that take the ThreadManager's locks or join its workers
LockThreads ==
    {Sup(id) : id \in 1..MaxThreads} \cup Callers
        \cup {"list_threads", "health_check", "get_restart_info"}

\* the thread that holds a lock, if any
HolderOf(lock) == {lock} \ {"free"}

\* the holders of the status locks a pass still has to take
StatusHolders(s) == UNION {HolderOf(status_lock[id]) : id \in scan[s].todo}

\* the threads worker id's thread cannot go on without: the holder of the
\* lock its lock() or write() call waits for
SupWaitsFor(id) ==
    IF SupAt(id, "err") \/ SupAt(id, "record")
    THEN HolderOf(restart_mutex) \ {Sup(id)}
    ELSE IF sup_wants_registry(id) /\ registry_mutex # Sup(id)
    THEN HolderOf(registry_mutex)
    ELSE IF sup_wants_registry(id) /\ id \in DOMAIN threads
    THEN HolderOf(status_lock[id]) \ {Sup(id)}
    ELSE IF id \in HealthMonitors /\ scan["health_monitor"].pc = "want"
    THEN HolderOf(registry_mutex)
    ELSE IF id \in HealthMonitors /\ scan["health_monitor"].pc = "iter"
    THEN StatusHolders("health_monitor")
    ELSE {}

\* the threads a caller of stop_thread cannot go on without: the holder of
\* the record's status lock (275), or the worker it joins (282)
StopWaitsFor(c) ==
    IF stopper[c].pc = "registry" /\ stopper[c].id \in DOMAIN threads
    THEN HolderOf(status_lock[stopper[c].id])
    ELSE IF stopper[c].pc = "join" /\ ~SupAt(stopper[c].id, "done")
    THEN {Sup(stopper[c].id)}
    ELSE {}

\* the threads t waits for: an edge of the wait-for graph for each
WaitsFor(t) ==
    IF t \in Callers THEN StopWaitsFor(t)
    ELSE IF t \in {"list_threads", "health_check"}
    THEN IF scan[t].pc = "iter" THEN StatusHolders(t) ELSE {}
    ELSE IF \E id \in Allocated : t = Sup(id)
    THEN SupWaitsFor(CHOOSE id \in Allocated : t = Sup(id))
    ELSE {}

\* the threads reached from S along at most n edges of the wait-for graph
RECURSIVE WaitClosure(_, _)
WaitClosure(S, n) ==
    IF n = 0 THEN S
    ELSE WaitClosure(S \cup UNION {WaitsFor(u) : u \in S}, n - 1)

\* t waits, through other threads or directly, for itself
InWaitCycle(t) == t \in WaitClosure(WaitsFor(t), Cardinality(LockThreads))

\* C39: the supervision loops, stop_thread, stop_all_threads, list_threads,
\* get_restart_info, health_check and the HealthMonitor worker never come to
\* a circular wait over the registry mutex, the restart manager's mutex, the
\* records' status locks and the joins: no thread waits for itself along the
\* wait-for graph, and no thread holds the restart manager's mutex while it
\* holds or waits for another lock.
C39_NoCircularWait ==
    /\ \A t \in LockThreads : ~InWaitCycle(t)
    /\ \A t \in LockThreads :
          restart_mutex = t =>
              /\ registry_mutex # t
              /\ \A id \in 1..MaxThreads : status_lock[id] # t
              /\ WaitsFor(t) = {}

\* stop_thread joins a worker whose supervision loop waits for the registry
\* mutex that list_threads holds: a chain of two waits that ends
C39_Witness ==
    \E id \in Allocated :
        /\ stopper["direct"].pc = "join"
        /\ WaitsFor("direct") = {Sup(id)}
        /\ WaitsFor(Sup(id)) = {"list_threads"}
        /\ WaitsFor("list_threads") = {}

(* ------------- register and unregister on one SignalHandler ------------ *)

RegOnly == UNCHANGED <<tmVars, pmVars, sigVars, ehVars, policyVars, cfgVars,
                       histVars, lockVars, locksVars>>

NextRegister ==
    \/ \E c \in RegCallers : register_load(c) /\ RegOnly
    \/ \E c \in RegCallers, ok \in BOOLEAN : register_call(c, ok) /\ RegOnly
    \/ \E c \in RegCallers : register_store(c) /\ RegOnly
    \/ \E c \in RegCallers : unregister_load(c) /\ RegOnly
    \/ \E c \in RegCallers, ok \in BOOLEAN : unregister_call(c, ok) /\ RegOnly
    \/ \E c \in RegCallers : unregister_store(c) /\ RegOnly

SpecRegister == InitThreads /\ [][NextRegister]_vars

(* ------------- list_threads next to the supervision loops ------------- *)

\* Workers whose bodies panic, supervised with restart, and a caller of
\* list_threads; nobody stops the workers.
NextList ==
    \/ \E n \in ThreadNames : create_thread_spawn(n, TRUE) /\ TMOnly
    \/ \E id \in creating : locked_section(create_thread_insert(id)) /\ TMOnly
    \/ \E id \in Allocated : body_panics(id) /\ TMOnly
    \/ \E id \in Allocated : sup_can_restart(id) /\ TMOnly
    \/ \E id \in Allocated : sup_decide(id) /\ TMOnly
    \/ \E id \in Allocated : sup_record_restart(id) /\ TMOnly
    \/ \E id \in Allocated : locked_section(sup_set_restarting(id)) /\ TMOnly
    \/ \E id \in Allocated : sup_wake(id) /\ TMOnly
    \/ \E id \in Allocated : sup_no_restart(id) /\ TMOnly
    \/ \E id \in Allocated : locked_section(sup_set_failed(id)) /\ TMOnly
    \/ list_threads_lock /\ TMLock
    \/ list_threads_return /\ TMLock

SpecList == InitThreads /\ [][NextList]_vars

(* ------------- the ThreadManager with its health check ----------------- *)

NextStatus ==
    \/ NextThreads
    \/ \E late \in SUBSET DOMAIN threads : health_check(late) /\ TMOnly

SpecStatus == InitThreads /\ [][NextStatus]_vars

(* ------------- workers that fault, and nobody stops them --------------- *)

\* Workers are created and their bodies run until they panic; no caller
\* starts, stops or health-checks them.
NextFault ==
    \/ \E n \in ThreadNames, er \in BOOLEAN : create_thread_spawn(n, er) /\ TMOnly
    \/ \E id \in creating : create_thread_insert(id) /\ TMOnly
    \/ \E id \in Allocated : body_panics(id) /\ TMOnly
    \/ \E id \in Allocated : sup_can_restart(id) /\ TMOnly
    \/ \E id \in Allocated : sup_decide(id) /\ TMOnly
    \/ \E id \in Allocated : sup_record_restart(id) /\ TMOnly
    \/ \E id \in Allocated : sup_set_restarting(id) /\ TMOnly
    \/ \E id \in Allocated : sup_wake(id) /\ TMOnly
    \/ \E id \in Allocated : sup_no_restart(id) /\ TMOnly
    \/ \E id \in Allocated : sup_set_failed(id) /\ TMOnly

SpecFault == InitThreads /\ [][NextFault]_vars

(* ------------------- the exception handler alone ----------------------- *)

InitException ==
    /\ InitTM
    /\ max_restarts = MaxPolicy
    /\ InitPM
    /\ InitSig
    /\ InitEH
    /\ InitPolicy
    /\ InitCfg
    /\ InitHist
    /\ InitLock
    /\ InitAux

EHOnly == UNCHANGED <<tmVars, pmVars, sigVars, filterVars, policyVars, cfgVars, histVars, lockVars, auxVars>>

\* a step of install or uninstall: the process is running
EHStep == Alive /\ EHOnly

NextException ==
    \/ \E h \in HandlerInstances : install_begin(h) /\ EHStep
    \/ \E h \in HandlerInstances : install_set_filter(h) /\ EHStep
    \/ \E h \in HandlerInstances : install_finish(h) /\ EHStep
    \/ \E h \in HandlerInstances : uninstall_begin(h) /\ EHStep
    \/ \E h \in HandlerInstances : uninstall_clear(h) /\ EHStep
    \/ \E h \in HandlerInstances : uninstall_store(h) /\ EHStep
    \/ \E input \in FilterInputs :
          unhandled_exception_filter(input)
             /\ UNCHANGED <<tmVars, pmVars, policyVars, cfgVars, histVars, lockVars, auxVars>>

SpecException == InitException /\ [][NextException]_vars

(* ---------------------- the restart policy alone ----------------------- *)

\* the backoff multipliers tried: 1/2, 1, 3/2, 2, 3
Multipliers == {<<1, 2>>, <<1, 1>>, <<3, 2>>, <<2, 1>>, <<3, 1>>}

\* a ThreadRestartManager::new(policy) with any policy within the bounds
InitBackoff ==
    /\ InitTM
    /\ max_restarts = MaxPolicy
    /\ InitPM
    /\ InitSig
    /\ InitEH
    /\ restart_delay \in 0..MaxDelay
    /\ backoff_multiplier \in Multipliers
    /\ max_restart_delay \in 0..MaxDelay
    /\ delays = [name \in ThreadNames |-> <<>>]
    /\ InitCfg
    /\ InitHist
    /\ InitLock
    /\ InitAux

NextBackoff ==
    \E name \in ThreadNames :
        record_restart_call(name)
            /\ UNCHANGED <<pmVars, sigVars, ehVars, cfgVars, histVars, lockVars, auxVars>>

SpecBackoff == InitBackoff /\ [][NextBackoff]_vars

(* ---------------------- the configuration parser ----------------------- *)

CfgOnly == UNCHANGED <<tmVars, pmVars, sigVars, ehVars, policyVars, histVars, lockVars, auxVars>>

NextConfig ==
    \/ \E l \in SampleLines, touch \in {0, 1} : append_line(l, touch) /\ CfgOnly
    \/ load_config /\ CfgOnly

SpecConfig == InitException /\ [][NextConfig]_vars

(* ------------- workers whose body faults on every invocation ----------- *)

\* create_thread(name, f): the new thread enters its loop and invokes the
\* body for the first time (lines 140-145)
create_thread_counted(name) ==
    /\ create_thread_spawn(name, TRUE)
    /\ invocations' = invocations @@ (next_thread_id :> 1)

\* the end of the backoff sleep; `continue` invokes the body again (line 194)
sup_wake_counted(id) ==
    /\ sup_wake(id)
    /\ invocations' = [invocations EXCEPT ![id] = IF should_shutdown(id) THEN @ ELSE @ + 1]

\* the frame of a step that counts an invocation
TMCounted == UNCHANGED <<pmVars, sigVars, ehVars, policyVars, cfgVars, lockVars, auxVars>>

\* Workers with restart enabled whose body panics every time it is invoked;
\* callers may stop a worker.
NextRestart ==
    \/ \E n \in ThreadNames : create_thread_counted(n) /\ TMCounted
    \/ \E id \in creating : create_thread_insert(id) /\ TMOnly
    \/ \E id \in Allocated : body_panics(id) /\ TMOnly
    \/ \E id \in Allocated : sup_can_restart(id) /\ TMOnly
    \/ \E id \in Allocated : sup_decide(id) /\ TMOnly
    \/ \E id \in Allocated : sup_record_restart(id) /\ TMOnly
    \/ \E id \in Allocated : sup_set_restarting(id) /\ TMOnly
    \/ \E id \in Allocated : sup_wake_counted(id) /\ TMCounted
    \/ \E id \in Allocated : sup_no_restart(id) /\ TMOnly
    \/ \E id \in Allocated : sup_set_failed(id) /\ TMOnly
    \/ \E id \in Allocated : stop_thread(id) /\ TMOnly
    \/ \E id \in Allocated : stop_thread_join(id) /\ TMOnly

SpecRestart == InitThreads /\ [][NextRestart]_vars

(* ----------------- workers whose body returns cleanly ------------------ *)

\* Workers are created (in either mode), may be started, and their bodies
\* return without a fault; nobody stops them.
NextClean ==
    \/ \E n \in ThreadNames, er \in BOOLEAN : create_thread_spawn(n, er) /\ TMOnly
    \/ \E id \in creating : create_thread_insert(id) /\ TMOnly
    \/ \E id \in Allocated : start_thread(id) /\ TMOnly
    \/ \E id \in Allocated : body_returns(id) /\ TMOnly

SpecClean == InitThreads /\ [][NextClean]_vars

(* ============================ the claims =============================== *)

\* C1: for every worker, in every reachable state, the restart count the
\* ThreadRestartManager keeps for it (keyed by the worker's name) is at most
\* policy.max_restarts, also for workers that share a name.
C1_RestartCountBounded ==
    \A id \in Allocated : get_restart_count(restart_counts, sup[id].name) <= max_restarts

\* the OS children spawned for process name p, and those of them still alive
SpawnedFor(p) == {c \in ChildIds : children[c].name = p}
LiveChildren(p) == {c \in SpawnedFor(p) : children[c].state = "live"}

\* the monitor workers start_process created for process name p
MonitorsOf(p) == {id \in DOMAIN mon : mon[id].name = p}

\* C2: for a process started with RestartPolicy::Limited(max_restarts),
\* restart_count <= max_restarts in every reachable state.
C2_RestartCountWithinLimit ==
    \A p \in DOMAIN processes :
        processes[p].restart_policy.kind = "Limited"
            => processes[p].restart_count <= processes[p].restart_policy.max

\* C3: a child under Limited(N) that exits every time it is started has been
\* spawned exactly N + 1 times when its monitor has given up (one
\* start_process call, every spawn() succeeded).
C3_SpawnsNPlusOne ==
    \A p \in DOMAIN processes :
        ( /\ processes[p].restart_policy.kind = "Limited"
          /\ Cardinality(MonitorsOf(p)) = 1
          /\ \A id \in MonitorsOf(p) : sup[id].pc = "done"
          /\ p \notin spawn_errors )
        => Cardinality(SpawnedFor(p)) = processes[p].restart_policy.max + 1

\* C4: at every moment at most one OS child process is alive per process name.
C4_OneLiveChildPerRecord ==
    \A p \in ProcNames : Cardinality(LiveChildren(p)) <= 1

\* C5: a monitor worker whose shutdown flag is set never executes another
\* spawn in monitor_process.
C5_NoSpawnAfterShutdownFlag ==
    [][\A id \in DOMAIN mon :
          shutdown_signal[id] => ~(mon[id].pc = "spawn" /\ mon'[id].pc = "store")]_vars

(* ----------------------- shutdown signalling -------------------------- *)

\* C6: the global shutdown flag and every worker's shutdown flag are one-way
\* latches: once true they stay true, whatever signal arrives or operation
\* runs afterwards.
C6_ShutdownFlagsLatch ==
    [][/\ SHUTDOWN_FLAG => SHUTDOWN_FLAG'
       /\ \A id \in DOMAIN shutdown_signal :
            shutdown_signal[id] =>
                id \in DOMAIN shutdown_signal' /\ shutdown_signal'[id]]_vars

\* a second signal has arrived after the global flag was set, and a worker's
\* flag has been set by stop_all_threads
C6_Witness ==
    /\ SHUTDOWN_FLAG
    /\ Len(handlers) >= 2
    /\ \E id \in DOMAIN shutdown_signal : shutdown_signal[id]

\* the shutdown mode: None 0, Graceful 1 (GRACEFUL_SHUTDOWN_STARTED), Forced 2
\* (a forced-exit monitor has been started)
ModeRank ==
    IF Len(forced_monitors) > 0 THEN 2
    ELSE IF GRACEFUL_SHUTDOWN_STARTED THEN 1
    ELSE 0

\* C7: the shutdown mode only moves forward along None -> Graceful -> Forced;
\* no step takes it back or past a stage.
C7_ModeMonotone ==
    [][ModeRank' = ModeRank \/ ModeRank' = ModeRank + 1]_vars

\* a graceful-class first signal has been handled and the mode is Forced
C7_Witness ==
    /\ ModeRank = 2
    /\ \E h \in DOMAIN handlers :
          handlers[h].pc = "done" /\ handlers[h].first /\ ~handlers[h].immediate

\* the arrival time of the first signal: the handler that found
\* GRACEFUL_SHUTDOWN_STARTED false holds it until it has stored it
FirstSignalTime ==
    IF \E h \in DOMAIN handlers : handlers[h].pc = "store_time"
    THEN handlers[CHOOSE h \in DOMAIN handlers : handlers[h].pc = "store_time"].current_time
    ELSE SHUTDOWN_START_TIME

\* C8: the handler of a subsequent signal starts the forced watchdog if and
\* only if more than 5 seconds lie between the first signal and this one, also
\* when the two handlers run concurrently.
C8_SubsequentSignalThreshold ==
    [][\A h \in DOMAIN handlers :
         (handlers[h].pc = "again" /\ handlers'[h].pc = "done") =>
            ((Len(forced_monitors') > Len(forced_monitors))
               <=> (handlers[h].current_time - FirstSignalTime
                       > SubsequentSignalThreshold))]_vars

\* the handler of an immediate-class first signal has returned
FirstImmediateDone ==
    \E h \in DOMAIN handlers :
        handlers[h].pc = "done" /\ handlers[h].first /\ handlers[h].immediate

\* C9: after an immediate-class first signal the mode is Forced at once, with
\* a watchdog due 60 s after the signal; the process does not live past that
\* second, exit code 1 is the watchdog's at that second, and any other end is
\* the main function's own exit.
C9_ImmediateSignalForcedExit ==
    FirstImmediateDone =>
        /\ ModeRank = 2
        /\ \E w \in DOMAIN forced_monitors :
              forced_monitors[w] = SHUTDOWN_START_TIME + FORCED_SHUTDOWN_TIMEOUT_SECONDS
        /\ now <= SHUTDOWN_START_TIME + FORCED_SHUTDOWN_TIMEOUT_SECONDS
        /\ exit_code = "1" =>
              now = SHUTDOWN_START_TIME + FORCED_SHUTDOWN_TIMEOUT_SECONDS
        /\ exit_code = "0" => main_pc = "exited"

\* the watchdog of an immediate-class first signal has terminated the process
C9_Witness ==
    /\ FirstImmediateDone
    /\ exit_code = "1"
    /\ now = SHUTDOWN_START_TIME + FORCED_SHUTDOWN_TIMEOUT_SECONDS

\* the main loop has terminated: daemon_main_loop is past stop_all_threads
MainLoopTerminated == main_pc \in {"cleanup", "exited"}

\* the graceful monitor leaves its loop and starts the forced monitor
Escalates ==
    /\ graceful_monitors # {}
    /\ graceful_monitors' = {}
    /\ Len(forced_monitors') = Len(forced_monitors) + 1

\* C10: after a graceful-class first signal the graceful watchdog escalates to
\* the forced watchdog 30 s after the signal if the main loop has not
\* terminated by then, and does not escalate if the main loop has terminated.
C10_GracefulEscalation ==
    [][/\ Escalates =>
            /\ now = SHUTDOWN_START_TIME + GRACEFUL_SHUTDOWN_TIMEOUT_SECONDS
            /\ ~MainLoopTerminated
       /\ ( /\ graceful_monitors # {}
            /\ graceful_monitors' # graceful_monitors
            /\ now = SHUTDOWN_START_TIME + GRACEFUL_SHUTDOWN_TIMEOUT_SECONDS
            /\ ~MainLoopTerminated ) => Escalates]_vars

(* ------------------------ shutdown scenarios --------------------------- *)

\* seconds from the first signal to the forced exit on the graceful path
EscalationDeadline ==
    GRACEFUL_SHUTDOWN_TIMEOUT_SECONDS + FORCED_SHUTDOWN_TIMEOUT_SECONDS

\* C11: after an interrupt, with a worker that ignores its shutdown flag (so
\* stop_all_threads never returns), the process is eventually terminated with
\* exit code 1: never by another exit, never later than 30 + 60 seconds after
\* the signal, and exactly then when no further signal arrives.
C11_ForceEscalation ==
    /\ [](exit_code # "0")
    /\ [](SHUTDOWN_START_TIME # 0 => now <= SHUTDOWN_START_TIME + EscalationDeadline)
    /\ []((exit_code = "1" /\ Len(handlers) = 1)
            => now = SHUTDOWN_START_TIME + EscalationDeadline)
    /\ (SHUTDOWN_FLAG ~> exit_code = "1")

\* one interrupt; stop_all_threads hangs in its join; the watchdog has ended
\* the process
C11_Witness ==
    /\ Len(handlers) = 1
    /\ stop_all.pc = "join"
    /\ exit_code = "1"
    /\ now = SHUTDOWN_START_TIME + EscalationDeadline

\* C12: with one long-running supervised child, after an interrupt the
\* graceful watchdog never escalates and the process is never forced out; the
\* process exits with code 0 with the monitor worker's shutdown flag set and
\* the child terminated.
C12_GracefulShutdown ==
    /\ Len(forced_monitors) = 0
    /\ exit_code # "1"
    /\ exit_code = "0" =>
          /\ \A id \in DOMAIN mon : shutdown_signal[id]
          /\ \A c \in ChildIds : children[c].state = "exited"

(* --------------------------- the registry ------------------------------ *)

\* ThreadStatus values the specification calls terminal
TerminalStatus == {"Stopped", "Failed"}

\* C13: a stop_thread(id) on a created worker whose body watches its flag
\* returns, wherever the supervision loop was, and when it returns the worker
\* is in the registry with a terminal status (Stopped or Failed).
C13_StopThreadTerminates ==
    /\ [][\A id \in joining :
            id \notin joining' =>
               /\ id \in DOMAIN threads'
               /\ threads'[id].status \in TerminalStatus]_vars
    /\ \A id \in 1..MaxThreads : (id \in joining) ~> (id \notin joining)

\* a stop_thread(id) has succeeded and returned: only stop_thread sets the
\* worker's flag, and its join is over
FirstStopReturned(id) ==
    /\ id \in Allocated
    /\ should_shutdown(id)
    /\ id \notin joining

\* C14: once a stop_thread(id) has succeeded, a further stop_thread(id) returns
\* Ok and is a no-op (the flag, the status Stopped and the taken handle are
\* what it would write, so it joins nothing and changes nothing), also during
\* and after stop_all_threads.
C14_StopThreadIdempotent ==
    \A id \in Allocated :
        FirstStopReturned(id) =>
            /\ stop_thread_result(id) = "Ok"
            /\ threads[id].status = "Stopped"
            /\ ~threads[id].handle

\* the status changes the specification's state machine allows
AllowedEdges ==
    {<<"Created", "Stopped">>, <<"Created", "Restarting">>,
     <<"Created", "Failed">>, <<"Restarting", "Created">>}

\* C15: the status of a worker in the registry only changes along Created ->
\* Stopped, Created -> Restarting, Created -> Failed and Restarting ->
\* Created; in particular no step changes a status that is Stopped or Failed.
C15_StatusEdges ==
    [][\A id \in DOMAIN threads :
          (id \in DOMAIN threads' /\ threads'[id].status # threads[id].status)
             => <<threads[id].status, threads'[id].status>> \in AllowedEdges]_vars

\* what list_threads (lines 332-341) reports for id: the status in the map
list_threads_status(id) == threads[id].status

\* C16: with max_restarts = 0 a restart-enabled worker whose body faults never
\* reaches the restart bookkeeping or the backoff sleep (so the body is not
\* invoked again), and once its supervision has ended and create_thread has
\* returned, list_threads reports Failed for it.
C16_ZeroBudgetFails ==
    max_restarts = 0 =>
        \A id \in Allocated :
            sup[id].enable_restart =>
                /\ sup[id].pc \notin {"record", "set_restarting", "sleep"}
                /\ get_restart_count(restart_counts, sup[id].name) = 0
                /\ (sup[id].pc = "done" /\ id \notin creating)
                      => list_threads_status(id) = "Failed"

\* C17: every id a create call allocates is greater than every id allocated
\* before it, so no id is handed out twice, and an allocated id stays the id
\* of the worker it was given to: under concurrent creates and after
\* stop_all_threads has cleared the map.
C17_IdsIncreaseNeverReused ==
    [][/\ \A id \in creating' \ creating :
             /\ id \notin Allocated
             /\ id \notin DOMAIN threads
             /\ \A j \in Allocated : j < id
       /\ \A id \in Allocated :
             id \in DOMAIN sup' /\ sup'[id].name = sup[id].name]_vars

\* worker 1 was created and removed by stop_all_threads, and a worker created
\* next to it is in the registry under another id
C17_Witness ==
    /\ Cardinality(Allocated) >= 2
    /\ creating = {}
    /\ 1 \notin DOMAIN threads
    /\ 2 \in DOMAIN threads

\* C18: the registry never holds two workers with the same name (a create
\* for a name already present is rejected and creates nothing).
C18_DuplicateNameRejected ==
    \A i, j \in DOMAIN threads : i # j => threads[i].name # threads[j].name

\* the supervision thread of worker a takes a step of its fault handling:
\* the panic of its body, or any step between the panic and the restart or
\* the end of the thread
FaultStep(a) ==
    /\ sup[a].pc \in {"body", "err", "decide", "record", "set_restarting",
                       "sleep", "norestart", "set_failed"}
    /\ sup'[a] # sup[a]
    /\ ~(sup[a].pc = "body" /\ sup'[a].pc = "done" /\ sup[a].enable_restart)

\* the restarts worker b may still get
remaining_budget(counts, b) ==
    IF get_restart_count(counts, sup[b].name) >= max_restarts THEN 0
    ELSE max_restarts - get_restart_count(counts, sup[b].name)

\* C19: a fault of worker A and its handling leave every other worker B as it
\* was: B's status, shutdown flag, restart count, remaining restart budget
\* and the position of B's thread.
C19_FaultIsolation ==
    [][\A a \in Allocated :
          FaultStep(a) =>
             \A b \in Allocated \ {a} :
                /\ sup'[b] = sup[b]
                /\ shutdown_signal'[b] = shutdown_signal[b]
                /\ (b \in DOMAIN threads) = (b \in DOMAIN threads')
                /\ b \in DOMAIN threads => threads'[b].status = threads[b].status
                /\ get_restart_count(restart_counts', sup[b].name)
                      = get_restart_count(restart_counts, sup[b].name)
                /\ remaining_budget(restart_counts', b)
                      = remaining_budget(restart_counts, b)]_vars

(* ------------------------ the exception filter ------------------------- *)

\* the instances whose install has succeeded and whose uninstall has not
\* yet cleared it
InstalledInstances == {h \in HandlerInstances : eh[h].installed}

\* the program state of the exception handling, without the calls' results
InstallState ==
    <<EXCEPTION_HANDLER_INSTALLED, top_level_filter, panic_hooks,
      [h \in HandlerInstances |-> <<eh[h].installed, eh[h].previous_filter, eh[h].pc>>]>>

\* C20: at most one ExceptionHandler is installed at a time and it is the one
\* whose filter is in place; an install() that fails changes no state and
\* fails only while an installation holds the process-wide flag; a new
\* install() can only succeed once uninstall() has put the previous filter
\* back.
C20_FilterInstalledOnce ==
    /\ [](Cardinality(InstalledInstances) <= 1)
    /\ [](\A h \in InstalledInstances :
            /\ EXCEPTION_HANDLER_INSTALLED
            /\ eh[h].previous_filter = "os_default"
            /\ eh[h].pc = "idle" => top_level_filter = "daemon")
    /\ [](~EXCEPTION_HANDLER_INSTALLED =>
            InstalledInstances = {} /\ top_level_filter = "os_default")
    /\ [][\A h \in HandlerInstances :
            (eh[h].last # "install_err" /\ eh'[h].last = "install_err")
                => EXCEPTION_HANDLER_INSTALLED /\ InstallState' = InstallState]_vars

\* h2 is installed after an earlier installation was uninstalled, and h1's
\* install() has failed against it
C20_Witness ==
    /\ eh["h2"].installed
    /\ eh["h2"].pc = "idle"
    /\ panic_hooks >= 2
    /\ eh["h1"].last = "install_err"

(* ---------------------- the host-exception filter ---------------------- *)

\* the shutdown state of the daemon: the signal handler's flags and every
\* worker's shutdown flag
ShutdownState ==
    <<SHUTDOWN_FLAG, GRACEFUL_SHUTDOWN_STARTED, SHUTDOWN_START_TIME, shutdown_signal>>

\* C21: a call of the filter with an exception code ends the process with
\* exit code 1 exactly when the code is stack overflow or noncontinuable
\* exception; for every other code it adds one to EXCEPTION_COUNT, logs,
\* returns EXCEPTION_CONTINUE_SEARCH, leaves the process running and leaves
\* the shutdown state as it was.
C21_FilterFatalCodes ==
    [][(filter_calls' # filter_calls /\ filter_last'.input \in ExceptionCodes) =>
          IF filter_last'.input \in FatalCodes
          THEN exit_code' = "1" /\ filter_last'.outcome = "exit"
          ELSE /\ EXCEPTION_COUNT' = EXCEPTION_COUNT + 1
               /\ filter_last'.logged
               /\ filter_last'.outcome = "EXCEPTION_CONTINUE_SEARCH"
               /\ exit_code' = "running"
               /\ ShutdownState' = ShutdownState]_vars

\* the filter has let two exceptions pass to the default handler and has
\* ended the process on a stack overflow
C21_Witness ==
    /\ EXCEPTION_COUNT = 3
    /\ filter_last.input = "EXCEPTION_STACK_OVERFLOW"
    /\ exit_code = "1"

(* --------------------------- the backoff delay ------------------------- *)

\* C22: for a policy with backoff_multiplier >= 1 and max_restart_delay >=
\* restart_delay, the delays returned by successive record_restart calls for
\* one worker never decrease and none exceeds max_restart_delay.
C22_DelaysNonDecreasingBounded ==
    (backoff_multiplier[1] >= backoff_multiplier[2] /\ max_restart_delay >= restart_delay)
        => \A name \in ThreadNames :
              /\ \A i, j \in DOMAIN delays[name] :
                    i <= j => delays[name][i] <= delays[name][j]
              /\ \A i \in DOMAIN delays[name] : delays[name][i] <= max_restart_delay

\* four restarts under a policy with multiplier 3/2: the delay stays, grows
\* and ends clamped to max_restart_delay
C22_Witness ==
    /\ backoff_multiplier = <<3, 2>>
    /\ max_restart_delay >= restart_delay
    /\ Len(delays["a"]) = MaxRecorded
    /\ delays["a"][1] = delays["a"][2]
    /\ delays["a"][2] < delays["a"][3]
    /\ delays["a"][4] = max_restart_delay
    /\ restart_delay_of_unclamped(4) > max_restart_delay

(* ------------------------ the configuration file ----------------------- *)

\* the lines load_config is to ignore: empty (blank) ones and comments
IgnoredLine(l) == trim(l) = <<>> \/ starts_with(trim(l), "#")

\* the process name a line defines: all of it, or what is before the first ':'
NameOfLine(l) == trim(split(trim(l), ":")[1])

\* the lines of a file that are entries and parse
WellFormed(lines) ==
    {i \in DOMAIN lines : ~IgnoredLine(lines[i]) /\ parse_line(lines[i], i).kind = "Some"}

\* the lines of a file that are entries and do not parse
Malformed(lines) ==
    {i \in DOMAIN lines : ~IgnoredLine(lines[i]) /\ parse_line(lines[i], i).kind = "Err"}

\* the map with one entry per distinct name of the lines in the set, taken
\* from the last line of that name
LastOccurrenceWins(lines, entries) ==
    LET names == {NameOfLine(lines[i]) : i \in entries}
        last(n) == CHOOSE i \in entries :
                      /\ NameOfLine(lines[i]) = n
                      /\ \A j \in entries : NameOfLine(lines[j]) = n => j <= i
    IN  [n \in names |-> parse_line(lines[last(n)], last(n)).config]

\* C23: when a load reads a file with a malformed line and with entries that
\* parse, the error names the malformed line's number and load_config still
\* returns the entries of the lines that did parse.
C23_MalformedLineSkipped ==
    (/\ load_result.kind # "none"
     /\ ~load_result.cached
     /\ Malformed(load_result.source) # {}
     /\ WellFormed(load_result.source) # {})
        => /\ load_result.line \in Malformed(load_result.source)
           /\ load_result.kind = "Ok"
           /\ load_result.configs =
                 LastOccurrenceWins(load_result.source, WellFormed(load_result.source))

\* C24: the map load_config returns has exactly one entry per distinct
\* process name among the lines that are neither empty nor comments, and the
\* entry is that of the last line with the name.
C24_LastOccurrenceWins ==
    load_result.kind = "Ok"
        => load_result.configs =
              LastOccurrenceWins(load_result.source,
                                 {i \in DOMAIN load_result.source :
                                     ~IgnoredLine(load_result.source[i])})

\* a load of a comment and two different entries for the name a: the map has
\* the entry of the later line
C24_Witness ==
    /\ load_result.kind = "Ok"
    /\ ~load_result.cached
    /\ load_result.source = << <<"#", "a">>, <<"a", ":", "x">>, <<"a">> >>
    /\ DOMAIN load_result.configs = { <<"a">> }
    /\ load_result.configs[<<"a">>].executable_path = <<"a", ".", "e", "x", "e">>

(* -------------------------- the restart budget ------------------------- *)

\* the restarts already performed for a worker
restarts_performed(id) == invocations[id] - 1

\* the body of id is invoked again in this step
Reinvoked(id) == id \in DOMAIN invocations /\ invocations'[id] > invocations[id]

\* the supervision loop of id has exited and nobody asked id to shut down
ExitedUnasked(id) == SupAt(id, "done") /\ ~should_shutdown(id)

\* C25: a faulting body is invoked again only while the worker has had fewer
\* than max_restarts restarts and its shutdown flag is clear, and a worker
\* whose body faults on every invocation and that is never asked to shut
\* down has been invoked exactly max_restarts + 1 times when its loop exits.
C25_RestartBudget ==
    /\ [][\A id \in Allocated :
            Reinvoked(id) => restarts_performed(id) < max_restarts /\ ~should_shutdown(id)]_vars
    /\ [](\A id \in Allocated : ExitedUnasked(id) => invocations[id] = max_restarts + 1)

(* ---------------------- the end of a worker's body --------------------- *)

\* C26: once the body of a worker in the registry has returned cleanly and
\* its loop has exited, list_threads reports the worker as Stopped, although
\* nobody called stop_thread.
C26_CleanReturnStopped ==
    \A id \in DOMAIN threads :
        SupAt(id, "done") => list_threads_status(id) = "Stopped"

\* C27: once the body of a worker created with enable_restart = false has
\* faulted, the worker's status is Failed.
C27_SimpleModeFaultFails ==
    \A id \in DOMAIN threads :
        (SupAt(id, "done") /\ ~sup[id].enable_restart) => list_threads_status(id) = "Failed"

(* --------------------------- the backoff sleep ------------------------- *)

\* C28: the body of a worker in the registry never runs while the worker's
\* status is Restarting: the status is Created again before the body is
\* re-invoked.
C28_RestartingTransient ==
    \A id \in DOMAIN threads :
        SupAt(id, "body") => list_threads_status(id) # "Restarting"

\* C29: a worker whose shutdown flag is set while it is in its backoff sleep
\* keeps the flag, and when the sleep ends its loop exits without invoking
\* the body again.
C29_FlagRecheckedAfterSleep ==
    [][\A id \in Allocated :
          (SupAt(id, "sleep") /\ should_shutdown(id)) =>
              /\ shutdown_signal'[id]
              /\ sup'[id].pc \in {"sleep", "done"}
              /\ invocations'[id] = invocations[id]]_vars

\* worker 1 has recorded its one restart and set Restarting, was stopped
\* during the backoff sleep (its status is Stopped), and its loop has exited
\* with the body invoked only once
C29_Witness ==
    /\ Allocated = {1}
    /\ max_restarts = 1
    /\ restart_counts[sup[1].name] = 1
    /\ should_shutdown(1)
    /\ SupAt(1, "done")
    /\ invocations[1] = 1
    /\ 1 \in DOMAIN threads
    /\ threads[1].status = "Stopped"

\* C30: stop_thread and stop_all_threads never hold the registry mutex while
\* they wait in handle.join(): whenever a caller is in its join it does not
\* hold the mutex, so the joined worker's supervisor can take the mutex for
\* its status writes, and every join that has begun returns.
C30_NoJoinUnderRegistryMutex ==
    /\ [](\A c \in Callers : stopper[c].pc = "join" => registry_mutex # c)
    /\ \A c \in Callers : (stopper[c].pc = "join") ~> (stopper[c].pc # "join")

\* a caller waits in its join while the joined worker's supervisor, past the
\* Stopped that this stop_thread wrote, has taken the mutex and written
\* Restarting
C30_Witness ==
    /\ stopper["direct"].pc = "join"
    /\ stopper["direct"].id \in DOMAIN threads
    /\ threads[stopper["direct"].id].status = "Restarting"
    /\ registry_free

\* C31: list_threads does not block supervision loops: a supervisor that is
\* about to write its worker's status (Restarting or Failed) never waits for
\* a lock held by a list_threads call -- while list_threads holds the
\* registry mutex no supervisor stands at its status write.
C31_ListDoesNotBlockSupervisor ==
    registry_mutex = "list_threads" =>
        \A id \in Allocated : ~sup_wants_registry(id)

\* base_delay * multiplier^(k-1), by repeated multiplication
RECURSIVE GrownDelay(_)
GrownDelay(k) ==
    IF k = 1 THEN restart_delay ELSE GrownDelay(k - 1) * backoff_multiplier[1]

C33_FlagBeforeWatchdog ==
    /\ []((graceful_monitors # {} \/ forced_monitors # <<>>) => SHUTDOWN_FLAG)
    /\ [][(\/ graceful_monitors' # graceful_monitors
           \/ forced_monitors' # forced_monitors
           \/ (exit_code' = "1" /\ exit_code # "1"))
            => SHUTDOWN_FLAG]_vars

\* both kinds of watchdog have been started, by two signals
C33_Witness ==
    /\ SHUTDOWN_FLAG
    /\ graceful_monitors # {}
    /\ forced_monitors # <<>>
    /\ Len(handlers) = 2
    /\ exit_code = "running"

\* C34: whenever stop_thread(id) returns Ok the worker thread of id has
\* terminated (its supervision loop has exited and been joined), also when
\* stop_thread(id) runs concurrently with another stop_thread(id) or with
\* stop_all_threads: every step in which a caller's stop_thread returns
\* leaves the supervisor of that id at its end.
C34_StopOkMeansTerminated ==
    [][\A c \in Callers :
          (stopper[c].pc \in {"locked", "join"} /\ stopper'[c].pc = "idle")
              => sup'[stopper[c].id].pc = "done"]_vars

\* C35: stop_all_threads never drops a running worker: every record that its
\* final clear() removes from the map has had its shutdown flag set and its
\* thread has ended and been joined, also when create_thread runs between
\* the id snapshot and the clear.
C35_ClearDropsOnlyJoined ==
    [][(stop_all.pc = "loop" /\ stop_all'.pc = "idle") =>
          \A id \in DOMAIN threads :
              /\ should_shutdown(id)
              /\ SupAt(id, "done")
              /\ id \notin joining]_vars

\* C36: no status written by a supervisor is lost at creation: the worker's
\* record is in the map before its supervisor writes a status for the first
\* time, so without start_thread, stop_thread and health checks a worker
\* whose supervision loop has exited with the restart budget exhausted is
\* reported Failed by list_threads.
C36_FailedNotLostAtCreation ==
    /\ [][\A id \in Allocated :
             (sup_wants_registry(id) /\ ~sup_wants_registry(id)')
                 => id \in DOMAIN threads]_vars
    /\ [](\A id \in DOMAIN threads :
             (SupAt(id, "done") /\ sup[id].enable_restart)
                 => list_threads_status(id) = "Failed")

\* the monitor workers of process name p whose monitor_process loop still runs
LiveMonitors(p) == {id \in MonitorsOf(p) : sup[id].pc = "body"}

\* C37: for each process name at most one monitor thread (monitor_process
\* loop) is alive at any time, whatever start_process calls come while a
\* monitor has marked the record Stopped to restart the child or after a
\* failed respawn.
C37_OneMonitorPerProcess ==
    \A p \in ProcNames : Cardinality(LiveMonitors(p)) <= 1

\* C38: a subsequent signal that arrives more than 5 s after the first brings
\* the termination forward: its handler starts a forced-exit monitor due no
\* later than 60 s after the signal, the process never lives past the due
\* time of any forced-exit monitor, and when it is terminated with exit code
\* 1 that happens at the due time of the earliest-started monitor; once a
\* forced-exit monitor exists the process is terminated with exit code 1.
C38_SubsequentSignalForcesExit ==
    /\ [][\A h \in DOMAIN handlers :
             ( /\ handlers[h].pc = "again" /\ handlers'[h].pc = "done"
               /\ handlers[h].current_time - FirstSignalTime > SubsequentSignalThreshold )
             => /\ Len(forced_monitors') = Len(forced_monitors) + 1
                /\ forced_monitors'[Len(forced_monitors')]
                      <= handlers[h].current_time + FORCED_SHUTDOWN_TIMEOUT_SECONDS]_vars
    /\ [](\A w \in DOMAIN forced_monitors : now <= forced_monitors[w])
    /\ [](exit_code = "1" => now = forced_monitors[1])
    /\ ((Len(forced_monitors) > 0) ~> (exit_code = "1"))

\* a second signal more than 5 s after the interrupt has started a forced
\* monitor; the graceful monitor has escalated to a second one since, and the
\* process has been terminated when the earlier-started one fired
C38_Witness ==
    /\ Len(handlers) = 2
    /\ Len(forced_monitors) = 2
    /\ exit_code = "1"
    /\ now = forced_monitors[1]
    /\ now - FORCED_SHUTDOWN_TIMEOUT_SECONDS > SHUTDOWN_START_TIME + SubsequentSignalThreshold
    /\ forced_monitors[2] = SHUTDOWN_START_TIME + EscalationDeadline
    /\ now < forced_monitors[2]

\* C40: between a register that returned Ok and the next unregister on the
\* same SignalHandler no other register call returns Ok, also when register
\* calls run concurrently; and an unregister on a handler that is not
\* registered returns Ok and changes nothing.
C40_RegisterOncePerHandler ==
    /\ [](registered_ok <= 1)
    /\ [][\A c \in RegCallers :
             ( /\ reg[c].pc = "idle" /\ reg'[c] # reg[c]
               /\ reg'[c].op = "unregister" /\ ~handler_registered )
             => /\ reg'[c].pc = "idle" /\ reg'[c].result = "Ok"
                /\ UNCHANGED <<handler_registered, ctrl_handlers>>]_vars

====
